---- MODULE Spec2Model ----
(***************************************************************************)
(* Model of the AI stock scorer: the score store and the acquisition of    *)
(* missing metrics (scorer.py), the weighted total and the percentile rank *)
(* (scorer.py), and the oracle-comparison merge sort (grok_moat_sorter.py).*)
(*                                                                         *)
(* Text (tickers, store keys, oracle answers, metric values) is a sequence *)
(* of one-character strings, so that strip(), upper(), lower(), float()    *)
(* and the substring test are computed character by character.             *)
(***************************************************************************)
EXTENDS Integers, Sequences, FiniteSets, Bags, TLC

(***************************************************************************)
(* Bounds of the model.                                                    *)
(***************************************************************************)
\* number of metrics of SCORE_DEFINITIONS that the registry of the model holds
NumMetrics == 2
\* largest population of totals handed to calculate_percentile_rank
MaxPopulation == 50
\* largest number of companies handed to merge_sort_companies
MaxCompanies == 4
MaxStoreKeys == 3

(***************************************************************************)
(* Text helpers: str.strip, str.upper, str.lower, "x in y".                *)
(***************************************************************************)
LowerChars == <<"a","b","c","d","e","f","g","h","i","j","k","l","m",
                "n","o","p","q","r","s","t","u","v","w","x","y","z">>
UpperChars == <<"A","B","C","D","E","F","G","H","I","J","K","L","M",
                "N","O","P","Q","R","S","T","U","V","W","X","Y","Z">>
Whitespace == {" ", "\t", "\n"}
Digits == <<"0","1","2","3","4","5","6","7","8","9">>

CharUpper(c) ==
    IF \E i \in 1..26 : LowerChars[i] = c
    THEN UpperChars[CHOOSE i \in 1..26 : LowerChars[i] = c]
    ELSE c

CharLower(c) ==
    IF \E i \in 1..26 : UpperChars[i] = c
    THEN LowerChars[CHOOSE i \in 1..26 : UpperChars[i] = c]
    ELSE c

Upper(s) == [i \in 1..Len(s) |-> CharUpper(s[i])]
Lower(s) == [i \in 1..Len(s) |-> CharLower(s[i])]

RECURSIVE LStrip(_)
LStrip(s) ==
    IF s = <<>> THEN s
    ELSE IF Head(s) \in Whitespace THEN LStrip(Tail(s)) ELSE s

RECURSIVE RStrip(_)
RStrip(s) ==
    IF s = <<>> THEN s
    ELSE IF s[Len(s)] \in Whitespace THEN RStrip(SubSeq(s, 1, Len(s) - 1)) ELSE s

Strip(s) == RStrip(LStrip(s))

\* Python's "sub in s" on strings
Contains(sub, s) ==
    \E i \in 0..(Len(s) - Len(sub)) : SubSeq(s, i + 1, i + Len(sub)) = sub

(***************************************************************************)
(* Metric registry: SCORE_DEFINITIONS, SCORE_WEIGHTS.                      *)
(***************************************************************************)
AllMetrics ==
    << "moat_score", "barriers_score", "disruption_risk", "switching_cost",
       "brand_strength", "competition_intensity", "network_effect",
       "product_differentiation", "innovativeness_score", "growth_opportunity",
       "riskiness_score", "pricing_power", "ambition_score",
       "bargaining_power_of_customers", "bargaining_power_of_suppliers",
       "product_quality_score", "culture_employee_satisfaction_score",
       "trailblazer_score" >>

\* the metrics the model keeps, most telling first: moat_score (the one with
\* the legacy "score" fallback), a reverse metric, then the others
MetricChoice ==
    << "moat_score", "riskiness_score", "barriers_score", "disruption_risk" >>
    \o SelectSeq(AllMetrics, LAMBDA k : k \notin {"moat_score", "riskiness_score",
                                                  "barriers_score", "disruption_risk"})

\* the registry in the iteration order of the source
SCORE_DEFINITIONS ==
    SelectSeq(AllMetrics, LAMBDA k : \E i \in 1..NumMetrics : MetricChoice[i] = k)
MetricKeys == {SCORE_DEFINITIONS[i] : i \in 1..Len(SCORE_DEFINITIONS)}

is_reverse(score_key) ==
    score_key \in {"disruption_risk", "competition_intensity", "riskiness_score",
                   "bargaining_power_of_customers", "bargaining_power_of_suppliers"}

SCORE_WEIGHTS == [k \in MetricKeys |-> 10]

(***************************************************************************)
(* Metric records.  A record (a Python dict) is a function on Fields; a    *)
(* key that is not in the dict maps to Absent, a key holding None (JSON    *)
(* null) maps to NoneVal, any other value is text.                         *)
(***************************************************************************)
Absent  == <<"<absent>">>
NoneVal == <<"<None>">>

BookkeepingKeys == {"score", "date", "timestamp"}
Fields == MetricKeys \cup BookkeepingKeys

EmptyDict == [f \in Fields |-> Absent]

\* dict.get(key) : None when the key is absent
DictGet(d, key) == IF d[key] = Absent THEN NoneVal ELSE d[key]
\* dict.get(key, default)
DictGetDefault(d, key, default) == IF d[key] = Absent THEN default ELSE d[key]
\* truth value of a stored value: None and the empty string are falsy
Truthy(v) == v # Absent /\ v # NoneVal /\ v # <<>>
\* truth value of a dict: an empty dict is falsy
DictTruthy(d) == \E f \in Fields : d[f] # Absent

(***************************************************************************)
(* Score store: the "companies" collection of scores.json, an insertion-   *)
(* ordered mapping, as a sequence of entries [key, data] with unique keys. *)
(***************************************************************************)
HasKey(companies, key) == \E i \in 1..Len(companies) : companies[i].key = key

GetData(companies, key) ==
    companies[CHOOSE i \in 1..Len(companies) : companies[i].key = key].data

\* companies[key] = data
PutData(companies, key, data) ==
    IF HasKey(companies, key)
    THEN [i \in 1..Len(companies) |->
             IF companies[i].key = key THEN [key |-> key, data |-> data]
             ELSE companies[i]]
    ELSE Append(companies, [key |-> key, data |-> data])

StoreKeys(companies) == {companies[i].key : i \in 1..Len(companies)}

(***************************************************************************)
(* Ticker lookup: stock_tickers_clean.json overridden by                   *)
(* ticker_definitions.json.                                                *)
(***************************************************************************)
T_AAPL == <<"A","A","P","L">>
T_MSFT == <<"M","S","F","T">>
N_APPLE == <<"A","p","p","l","e"," ","I","n","c">>
N_MICROSOFT == <<"M","i","c","r","o","s","o","f","t">>
N_MICROSOFT_CORP == <<"M","i","c","r","o","s","o","f","t"," ","C","o","r","p">>

\* the "companies" list of stock_tickers_clean.json
TickerFile == << [ticker |-> T_AAPL, name |-> N_APPLE],
                 [ticker |-> T_MSFT, name |-> N_MICROSOFT] >>

\* the "definitions" of ticker_definitions.json
TickerDefinitionsFile == << [ticker |-> Lower(T_MSFT), name |-> N_MICROSOFT_CORP] >>

\* the dict built from a list of (ticker, name) items: upper-cased stripped
\* tickers, empty ones skipped, a later item replacing an earlier one
TableOf(items) ==
    LET key(i) == Upper(Strip(items[i].ticker))
        keys == {key(i) : i \in {j \in 1..Len(items) : key(j) # <<>>}}
    IN  [t \in keys |->
            Strip(items[CHOOSE i \in 1..Len(items) :
                     /\ key(i) = t
                     /\ \A j \in (i + 1)..Len(items) : key(j) # t].name)]

load_custom_ticker_definitions ==
    LET kept == SelectSeq(TickerDefinitionsFile, LAMBDA e : Strip(e.name) # <<>>)
    IN  TableOf(kept)

load_ticker_lookup_ReferenceWins ==
    LET main == TableOf(TickerFile)
        custom == load_custom_ticker_definitions
    IN  [t \in DOMAIN main \cup DOMAIN custom |->
            IF t \in DOMAIN main THEN main[t] ELSE custom[t]]

\* _ticker_cache.update(custom_definitions): the custom definitions win
load_ticker_lookup ==
    LET main == TableOf(TickerFile)
        custom == load_custom_ticker_definitions
    IN  [t \in DOMAIN main \cup DOMAIN custom |->
            IF t \in DOMAIN custom THEN custom[t] ELSE main[t]]

(***************************************************************************)
(* float(value) as calculate_total_score uses it.  The result is in tenths *)
(* (the modelled values have at most one decimal); ok = FALSE stands for   *)
(* the ValueError / TypeError that float raises.                           *)
(***************************************************************************)
IsDigit(c) == \E i \in 1..10 : Digits[i] = c
DigitVal(c) == (CHOOSE i \in 1..10 : Digits[i] = c) - 1

RECURSIVE DigitsToNat(_)
DigitsToNat(s) ==
    IF s = <<>> THEN 0
    ELSE 10 * DigitsToNat(SubSeq(s, 1, Len(s) - 1)) + DigitVal(s[Len(s)])

AllDigits(s) == \A i \in 1..Len(s) : IsDigit(s[i])

ParseFloat(v) ==
    IF v = NoneVal \/ v = Absent THEN [ok |-> FALSE, tenths |-> 0]
    ELSE LET s == Strip(v)
             dots == {i \in 1..Len(s) : s[i] = "."}
         IN  IF dots = {}
             THEN IF s # <<>> /\ AllDigits(s)
                  THEN [ok |-> TRUE, tenths |-> 10 * DigitsToNat(s)]
                  ELSE [ok |-> FALSE, tenths |-> 0]
             ELSE LET d == CHOOSE i \in dots : TRUE
                      ip == SubSeq(s, 1, d - 1)
                      fp == SubSeq(s, d + 1, Len(s))
                  IN  IF /\ Cardinality(dots) = 1
                         /\ AllDigits(ip) /\ AllDigits(fp)
                         /\ Len(ip) + Len(fp) > 0
                         /\ Len(fp) <= 1
                      THEN [ok |-> TRUE,
                            tenths |-> 10 * DigitsToNat(ip) + DigitsToNat(fp)]
                      ELSE [ok |-> FALSE, tenths |-> 0]

(***************************************************************************)
(* calculate_total_score: the loop over the registry.  All weights of the  *)
(* source are multiples of 10, so tenths * weight \div 10 is exact.        *)
(***************************************************************************)
ZeroText == <<"0">>

\* one iteration of the loop: what it adds to total
LoopContribution_NoInversion(scores_dict, score_key) ==
    LET weight == SCORE_WEIGHTS[score_key]
        score_value == ParseFloat(DictGetDefault(scores_dict, score_key, ZeroText))
    IN  IF ~score_value.ok THEN 0
        ELSE (score_value.tenths * weight) \div 10

LoopContribution(scores_dict, score_key) ==
    LET weight == SCORE_WEIGHTS[score_key]
        score_value == ParseFloat(DictGetDefault(scores_dict, score_key, ZeroText))
    IN  IF ~score_value.ok THEN 0
        ELSE IF is_reverse(score_key)
             THEN ((100 - score_value.tenths) * weight) \div 10
             ELSE (score_value.tenths * weight) \div 10

RECURSIVE TotalFrom(_, _)
TotalFrom(scores_dict, i) ==
    IF i > Len(SCORE_DEFINITIONS) THEN 0
    ELSE LoopContribution(scores_dict, SCORE_DEFINITIONS[i]) + TotalFrom(scores_dict, i + 1)

calculate_total_score(scores_dict) == TotalFrom(scores_dict, 1)

(***************************************************************************)
(* IEEE-754 double arithmetic, as far as calculate_percentile_rank uses    *)
(* it: count / len (0 <= count <= len), the product with 100.0, and int(). *)
(* A positive double is [exp, mant]: mant is its 53-bit significand, most  *)
(* significant bit first (mant[1] = 1), and exp the exponent of that bit.  *)
(* Both operations round to nearest, ties to even.                         *)
(***************************************************************************)
MantBits == 53

FloatZero == [zero |-> TRUE, exp |-> 0, mant |-> <<>>]

\* the next k bits of the binary expansion of r / n (r < 2n), then the rest
RECURSIVE DivBits(_, _, _, _)
DivBits(r, n, k, acc) ==
    IF k = 0 THEN [bits |-> acc, rem |-> r]
    ELSE DivBits(2 * (r - (IF r >= n THEN n ELSE 0)), n, k - 1,
                 Append(acc, IF r >= n THEN 1 ELSE 0))

\* bits + 1; the carry out of the first bit makes the result one bit longer
RECURSIVE IncBits(_, _)
IncBits(bits, i) ==
    IF i = 0 THEN <<1>> \o bits
    ELSE IF bits[i] = 0 THEN [bits EXCEPT ![i] = 1]
    ELSE IncBits([bits EXCEPT ![i] = 0], i - 1)

\* the double nearest to the number whose leading bits are bits (the first
\* one 1, of exponent exp), followed by a nonzero tail iff sticky
RoundToDouble(bits, exp, sticky) ==
    IF Len(bits) <= MantBits
    THEN [zero |-> FALSE, exp |-> exp,
          mant |-> bits \o [i \in 1..(MantBits - Len(bits)) |-> 0]]
    ELSE LET kept == SubSeq(bits, 1, MantBits)
             guard == bits[MantBits + 1]
             tail == sticky \/ \E i \in (MantBits + 2)..Len(bits) : bits[i] = 1
             up == guard = 1 /\ (tail \/ kept[MantBits] = 1)
             inc == IncBits(kept, MantBits)
         IN  IF ~up THEN [zero |-> FALSE, exp |-> exp, mant |-> kept]
             ELSE IF Len(inc) = MantBits
                  THEN [zero |-> FALSE, exp |-> exp, mant |-> inc]
                  ELSE [zero |-> FALSE, exp |-> exp + 1, mant |-> SubSeq(inc, 1, MantBits)]

\* the shift that brings c up to n <= c * 2^shift < 2n
RECURSIVE LeadShift(_, _)
LeadShift(c, n) == IF c >= n THEN 0 ELSE 1 + LeadShift(2 * c, n)

RECURSIVE Pow2(_)
Pow2(k) == IF k = 0 THEN 1 ELSE 2 * Pow2(k - 1)

\* count / len of two ints: true division, correctly rounded
FloatDiv(c, n) ==
    IF c = 0 THEN FloatZero
    ELSE LET shift == LeadShift(c, n)
             d == DivBits(c * Pow2(shift), n, MantBits + 1, <<>>)
         IN  RoundToDouble(d.bits, 0 - shift, d.rem # 0)

\* bits * m for a small int m, by the school method from the last bit
RECURSIVE MulBits(_, _, _, _, _)
MulBits(bits, m, i, carry, acc) ==
    IF i = 0
    THEN IF carry = 0 THEN acc
         ELSE MulBits(bits, m, 0, carry \div 2, <<carry % 2>> \o acc)
    ELSE MulBits(bits, m, i - 1, (bits[i] * m + carry) \div 2,
                 <<(bits[i] * m + carry) % 2>> \o acc)

\* x * m for a small positive int m (m is exact as a double)
FloatMulInt(x, m) ==
    IF x.zero THEN FloatZero
    ELSE LET prod == MulBits(x.mant, m, MantBits, 0, <<>>)
         IN  RoundToDouble(prod, x.exp + (Len(prod) - MantBits), FALSE)

RECURSIVE BitsToNat(_, _, _)
BitsToNat(bits, i, acc) ==
    IF i > Len(bits) THEN acc ELSE BitsToNat(bits, i + 1, 2 * acc + bits[i])

\* int(x) for 0 <= x < 2^31: the integer part
FloatToInt(x) ==
    IF x.zero \/ x.exp < 0 THEN 0
    ELSE BitsToNat(SubSeq(x.mant, 1, x.exp + 1), 1, 0)

(***************************************************************************)
(* calculate_percentile_rank.  all_scores, a list of totals, is given by   *)
(* the number of times each total occurs in it: the function reads only    *)
(* the length of the list and the number of its elements <= score.         *)
(***************************************************************************)
RECURSIVE SumOver(_, _)
SumOver(f, S) ==
    IF S = {} THEN 0
    ELSE LET x == CHOOSE y \in S : TRUE IN f[x] + SumOver(f, S \ {x})

PctNone == -1

calculate_percentile_rank_CountsGreater(score, all_scores) ==
    LET len == SumOver(all_scores, DOMAIN all_scores)
        scores_less_or_equal ==
            SumOver(all_scores, {s \in DOMAIN all_scores : s >= score})
    IN  IF len = 0 THEN PctNone
        ELSE FloatToInt(FloatMulInt(FloatDiv(scores_less_or_equal, len), 100))

calculate_percentile_rank(score, all_scores) ==
    LET len == SumOver(all_scores, DOMAIN all_scores)
        scores_less_or_equal ==
            SumOver(all_scores, {s \in DOMAIN all_scores : s <= score})
    IN  IF len = 0 THEN PctNone
        ELSE FloatToInt(FloatMulInt(FloatDiv(scores_less_or_equal, len), 100))

(***************************************************************************)
(* State.                                                                  *)
(***************************************************************************)
VARIABLES
    scores_file,   \* the "companies" collection persisted in scores.json
    op,            \* the last call: its name and arguments
    before,        \* scores_file as it was when the last call started
    ret,           \* what the last call returned
    oracle_log,    \* the oracle requests of the last call, in order
    scores_dict,   \* the record handed to calculate_total_score
    total,         \* what calculate_total_score returned
    total_done,    \* whether calculate_total_score has run
    all_scores,    \* the totals handed to calculate_percentile_rank
    percentiles,   \* what calculate_percentile_rank returned, per score
    pct_done,      \* whether calculate_percentile_rank has run
    ranked_input,  \* the list handed to merge_sort_companies by main()
    grok,          \* how the comparison oracle answers
    call_stack,    \* the active calls of merge_sort_companies, outermost first
    sorted_companies, \* what the outermost merge_sort_companies returned
    sort_done,     \* whether the outermost merge_sort_companies returned
    api_call_count, \* the module's counter of comparison requests
    grok_answer,   \* what the oracle did on the last comparison request
    raw_file,      \* what SCORES_FILE holds on disk, readable or not
    load_ret,      \* what load_scores returned or raised
    all_totals,    \* what get_all_total_scores returned or raised
    definitions_file, \* the "definitions" of ticker_definitions.json on disk
    ticker_cache,  \* the module's _ticker_cache
    lookup_ret,    \* what the last load_ticker_lookup returned
    cli_log,       \* the ticker-definition calls made so far, in order
    writers,       \* two processes running score_single_ticker, each with
                   \* its position and its own scores_data
    io_log,        \* the loads and saves of scores.json so far, in order
    batch_input,   \* the input_str of score_multiple_tickers
    batch_pos,     \* how many tickers its loop has been through
    batch_log,     \* the score_single_ticker calls of the loop, in order
    batch_done,    \* whether the loop of score_multiple_tickers has ended
    fill_answers   \* what the oracle did on each request of the last
                   \* fill_missing_barriers_scores, in order

acqVars == <<scores_file, op, before, ret, oracle_log>>
totVars == <<scores_dict, total, total_done>>
pctVars == <<all_scores, percentiles, pct_done>>
rankVars == <<ranked_input, grok, call_stack, sorted_companies, sort_done,
              api_call_count, grok_answer>>
loadVars == <<raw_file, load_ret, all_totals>>
defVars == <<definitions_file, ticker_cache, lookup_ret, cli_log>>
concVars == <<writers, io_log>>
batchVars == <<batch_input, batch_pos, batch_log, batch_done>>
fillVars == <<fill_answers>>
cliVars == <<defVars, concVars, batchVars, fillVars>>

(***************************************************************************)
(* The oracle of query_score: grok.simple_query_with_tokens answers with a *)
(* text or raises.  An answer function gives, for every metric, what the   *)
(* oracle does when it is asked for that metric during the call.           *)
(***************************************************************************)
Raises == <<"<raise>">>
OracleTexts == { <<" ", "8", "\n">>, <<" ">> }
OracleBehaviours == [MetricKeys -> OracleTexts \cup {Raises}]

\* query_score: the answer, stripped
query_score(ans, score_key) == Strip(ans[score_key])

(***************************************************************************)
(* score_single_ticker / get_company_moat_score.                           *)
(***************************************************************************)
RetNone == [kind |-> "None", ticker |-> <<>>, company_name |-> <<>>,
            scores |-> EmptyDict, total |-> 0, already_scored |-> FALSE]

RetError(input_str) ==
    [kind |-> "error", ticker |-> Upper(input_str), company_name |-> <<>>,
     scores |-> EmptyDict, total |-> 0, already_scored |-> FALSE]

RetSuccess(ticker, company_name, scores, already) ==
    [kind |-> "success", ticker |-> ticker, company_name |-> company_name,
     scores |-> scores, total |-> calculate_total_score(scores),
     already_scored |-> already]

\* FindExisting without the probes of the legacy keys
FindExisting_TickerOnly(companies, ticker, company_name) ==
    IF HasKey(companies, ticker)
    THEN [hit |-> TRUE, storage_key |-> ticker, data |-> GetData(companies, ticker)]
    ELSE [hit |-> FALSE, storage_key |-> <<>>, data |-> EmptyDict]

\* the probe for an existing record: ticker, lower-cased ticker, lower-cased name
FindExisting(companies, ticker, company_name) ==
    IF HasKey(companies, ticker)
    THEN [hit |-> TRUE, storage_key |-> ticker, data |-> GetData(companies, ticker)]
    ELSE IF HasKey(companies, Lower(ticker))
    THEN [hit |-> TRUE, storage_key |-> Lower(ticker),
          data |-> GetData(companies, Lower(ticker))]
    ELSE IF HasKey(companies, Lower(company_name))
    THEN [hit |-> TRUE, storage_key |-> Lower(company_name),
          data |-> GetData(companies, Lower(company_name))]
    ELSE [hit |-> FALSE, storage_key |-> <<>>, data |-> EmptyDict]

\* current_scores built from the existing record: registry keys only
CurrentScores(existing_data) ==
    [f \in Fields |->
        IF f \notin MetricKeys THEN Absent
        ELSE IF f = "moat_score"
             THEN DictGetDefault(existing_data, f, DictGet(existing_data, "score"))
             ELSE DictGet(existing_data, f)]

\* all(current_scores.values())
AllTruthy(current_scores) == \A k \in MetricKeys : Truthy(current_scores[k])

\* the metrics the fill loop visits with a falsy value, in registry order
MissingKeys(current_scores) ==
    SelectSeq(SCORE_DEFINITIONS, LAMBDA k : ~Truthy(current_scores[k]))

\* the loop "for score_key ...: scores[score_key] = query_score(...)" over the
\* keys todo; an exception of the oracle leaves the loop
QueryLoop(scores, todo, company_name, ans) ==
    LET failing == {i \in 1..Len(todo) : ans[todo[i]] = Raises}
        raised == failing # {}
        first == IF raised THEN CHOOSE i \in failing : \A j \in failing : i <= j
                 ELSE Len(todo)
        asked == {todo[i] : i \in 1..Len(todo)}
    IN  [raised |-> raised,
         log |-> [i \in 1..first |-> <<company_name, todo[i]>>],
         scores |-> [f \in Fields |->
                        IF f \in asked THEN query_score(ans, f) ELSE scores[f]]]

\* Lookup that scores an unknown input under the input itself
Lookup_AcceptsUnknown(companies, input_str, querying) ==
    LET input_upper == Upper(Strip(input_str))
        ticker_lookup == load_ticker_lookup
        company_name == IF input_upper \in DOMAIN ticker_lookup
                        THEN ticker_lookup[input_upper] ELSE Strip(input_str)
        found == FindExisting(companies, input_upper, company_name)
        existing == found.hit /\ DictTruthy(found.data)
        current_scores == IF existing THEN CurrentScores(found.data) ELSE EmptyDict
        complete == existing /\ AllTruthy(current_scores)
    IN  [valid |-> TRUE, ticker |-> input_upper, company_name |-> company_name,
         complete |-> complete,
         current_scores |-> current_scores,
         todo |-> IF complete \/ ~querying THEN <<>>
                  ELSE IF existing THEN MissingKeys(current_scores)
                  ELSE SCORE_DEFINITIONS]

\* The call up to its query loop: the identity check, the probe of the store
\* and the keys to ask the oracle for, in order.  querying is FALSE when
\* neither branch of the query loop is taken (silent and not batch_mode).
Lookup(companies, input_str, querying) ==
    LET input_upper == Upper(Strip(input_str))
        ticker_lookup == load_ticker_lookup
    IN  IF input_upper \notin DOMAIN ticker_lookup
        THEN [valid |-> FALSE, ticker |-> <<>>, company_name |-> <<>>,
              complete |-> FALSE, current_scores |-> EmptyDict, todo |-> <<>>]
        ELSE
        LET found == FindExisting(companies, input_upper, ticker_lookup[input_upper])
            existing == found.hit /\ DictTruthy(found.data)
            current_scores == IF existing THEN CurrentScores(found.data) ELSE EmptyDict
            complete == existing /\ AllTruthy(current_scores)
        IN  [valid |-> TRUE, ticker |-> input_upper,
             company_name |-> ticker_lookup[input_upper],
             complete |-> complete,
             current_scores |-> current_scores,
             todo |-> IF complete \/ ~querying THEN <<>>
                      ELSE IF existing THEN MissingKeys(current_scores)
                      ELSE SCORE_DEFINITIONS]

\* The rest of the call: the early returns, the query loop, the save.
Acquire(companies, input_str, look, ans) ==
    IF ~look.valid
    THEN [store |-> companies, ret |-> RetNone, log |-> <<>>]
    ELSE IF look.complete
    THEN [store |-> companies,
          ret |-> RetSuccess(look.ticker, look.company_name, look.current_scores, TRUE),
          log |-> <<>>]
    ELSE LET run == QueryLoop(look.current_scores, look.todo, look.company_name, ans)
         IN  IF run.raised
             THEN [store |-> companies, ret |-> RetError(input_str), log |-> run.log]
             ELSE [store |-> PutData(companies, look.ticker, run.scores),
                   ret |-> RetSuccess(look.ticker, look.company_name, run.scores, FALSE),
                   log |-> run.log]

\* An oracle behaviour is told apart only by what the call can observe: the
\* answers to the keys it asks, up to the first one that raises.
Observable(ans, todo) ==
    /\ \A k \in MetricKeys : (\A i \in 1..Len(todo) : todo[i] # k) => ans[k] = Raises
    /\ \A i \in 1..Len(todo) : \A j \in (i + 1)..Len(todo) :
          ans[todo[i]] = Raises => ans[todo[j]] = Raises

\* the call under an oracle each of whose calls ends in one of the given
\* ways
ScoreUnder(outcomes, input_str, silent, batch_mode) ==
    \E look \in {Lookup(scores_file, input_str, batch_mode \/ ~silent)} :
    \E ans \in OracleBehaviours :
        /\ Observable(ans, look.todo)
        /\ \A i \in 1..Len(look.todo) : ans[look.todo[i]] \in outcomes
        /\ \E out \in {Acquire(scores_file, input_str, look, ans)} :
            /\ op' = [name |-> "score_single_ticker", input_str |-> input_str,
                      silent |-> silent, batch_mode |-> batch_mode]
            /\ before' = scores_file
            /\ scores_file' = out.store
            /\ ret' = out.ret
            /\ oracle_log' = out.log

score_single_ticker(input_str, silent, batch_mode) ==
    ScoreUnder(OracleTexts \cup {Raises}, input_str, silent, batch_mode)

\* get_company_moat_score always queries and returns nothing
get_company_moat_score(input_str) ==
    \E look \in {Lookup(scores_file, input_str, TRUE)} :
    \E ans \in OracleBehaviours :
        /\ Observable(ans, look.todo)
        /\ \E out \in {Acquire(scores_file, input_str, look, ans)} :
            /\ op' = [name |-> "get_company_moat_score", input_str |-> input_str,
                      silent |-> FALSE, batch_mode |-> FALSE]
            /\ before' = scores_file
            /\ scores_file' = out.store
            /\ ret' = RetNone
            /\ oracle_log' = out.log

(***************************************************************************)
(* Specification of the acquisition engine.                                *)
(***************************************************************************)
\* what callers type: case and blank variants of a ticker, a second ticker,
\* an unknown ticker and a company name
AcqInputs ==
    { T_AAPL, Lower(T_AAPL), <<" ">> \o T_AAPL \o <<" ">>,
      <<"Z","Z","Z">>, N_APPLE }

DATE1 == <<"2","0","2","4","-","0","1","-","0","1">>

\* records a store file may hold when the program starts: any subset of the
\* registry metrics, with or without the legacy score key and a date
InitRecords ==
    { r \in [Fields -> {Absent, <<"7">>, DATE1}] :
        /\ \A k \in MetricKeys : r[k] \in {Absent, <<"7">>}
        /\ r["score"] \in {Absent, <<"7">>}
        /\ r["date"] \in {Absent, DATE1}
        /\ r["timestamp"] = Absent }

InitKeys == { T_AAPL, Lower(T_AAPL), Lower(N_APPLE) }

InitStores ==
    {<<>>}
    \cup { <<[key |-> k, data |-> r]>> : k \in InitKeys, r \in InitRecords }

OpIdle == [name |-> "init", input_str |-> <<>>, silent |-> FALSE, batch_mode |-> FALSE]

\* the totals of the stored records that calculate_percentile_rank is tried
\* on, and the scores whose rank is asked
PctTotals == {100, 150, 170}
QueryScores == PctTotals \cup {120}

IdleTotal ==
    /\ scores_dict = EmptyDict
    /\ total = 0
    /\ total_done = FALSE

IdlePct ==
    /\ all_scores = [t \in PctTotals |-> 0]
    /\ percentiles = [t \in QueryScores |-> PctNone]
    /\ pct_done = FALSE

NoOracle == [mode |-> "none", truth |-> <<>>, style |-> "none"]

NoAnswer == <<"<none>">>

IdleRank ==
    /\ ranked_input = <<>>
    /\ grok = NoOracle
    /\ call_stack = <<>>
    /\ sorted_companies = <<>>
    /\ sort_done = FALSE
    /\ api_call_count = 0
    /\ grok_answer = NoAnswer

NotCalled == [raised |-> "none", json |-> "none", value |-> <<>>]

IdleLoad ==
    /\ raw_file = [kind |-> "missing", companies |-> <<>>]
    /\ load_ret = NotCalled
    /\ all_totals = NotCalled

\* _ticker_cache = None
NoCache == <<"<None>">>

IdleDef ==
    /\ definitions_file = TickerDefinitionsFile
    /\ ticker_cache = NoCache
    /\ lookup_ret = NoCache
    /\ cli_log = <<>>

Writers == {1, 2}

IdleConc ==
    /\ writers = [p \in Writers |->
                    [pc |-> "idle", input_str |-> <<>>, scores_data |-> <<>>,
                     wrote |-> FALSE, storage_key |-> <<>>, record |-> EmptyDict]]
    /\ io_log = <<>>

IdleBatch ==
    /\ batch_input = <<>>
    /\ batch_pos = 0
    /\ batch_log = <<>>
    /\ batch_done = FALSE

IdleFill == fill_answers = <<>>

IdleCli == IdleDef /\ IdleConc /\ IdleBatch /\ IdleFill

InitAcq ==
    /\ scores_file \in InitStores
    /\ op = OpIdle
    /\ before = scores_file
    /\ ret = RetNone
    /\ oracle_log = <<>>
    /\ IdleTotal /\ IdlePct /\ IdleRank /\ IdleLoad /\ IdleCli

ScoreSingleTicker ==
    /\ \E input_str \in AcqInputs, silent \in BOOLEAN, batch_mode \in BOOLEAN :
            score_single_ticker(input_str, silent, batch_mode)
    /\ UNCHANGED <<totVars, pctVars, rankVars, loadVars, cliVars>>

GetCompanyMoatScore ==
    /\ \E input_str \in AcqInputs : get_company_moat_score(input_str)
    /\ UNCHANGED <<totVars, pctVars, rankVars, loadVars, cliVars>>

vars == <<acqVars, totVars, pctVars, rankVars, loadVars, cliVars>>

NextAcq == ScoreSingleTicker \/ GetCompanyMoatScore

SpecAcq == InitAcq /\ [][NextAcq]_vars

(***************************************************************************)
(* Aggregation: calculate_total_score applied to one record.               *)
(***************************************************************************)

IdleAcq ==
    /\ scores_file = <<>>
    /\ op = OpIdle
    /\ before = <<>>
    /\ ret = RetNone
    /\ oracle_log = <<>>

\* the values a stored record can hold for a metric: absent, None, numeric
\* text (with and without surrounding blanks or a decimal), empty text and
\* text that is not a number
TotalValues ==
    { Absent, NoneVal, <<"0">>, <<"7">>, <<"1", "0">>, <<" ", "3", " ">>,
      <<"7", ".", "5">>, <<>>, <<"N", "/", "A">> }

TotalInputs ==
    { [f \in Fields |-> IF f \in MetricKeys THEN m[f] ELSE Absent] :
        m \in [MetricKeys -> TotalValues] }

InitTotal ==
    /\ scores_dict \in TotalInputs
    /\ total = 0
    /\ total_done = FALSE
    /\ IdleAcq /\ IdlePct /\ IdleRank /\ IdleLoad /\ IdleCli

CalculateTotalScore ==
    /\ ~total_done
    /\ total' = calculate_total_score(scores_dict)
    /\ total_done' = TRUE
    /\ UNCHANGED <<scores_dict, acqVars, pctVars, rankVars, loadVars, cliVars>>

NextTotal == CalculateTotalScore

SpecTotal == InitTotal /\ [][NextTotal]_vars

(***************************************************************************)
(* Aggregation: calculate_percentile_rank applied to a population.         *)
(***************************************************************************)

Populations ==
    { m \in [PctTotals -> 0..MaxPopulation] :
        SumOver(m, PctTotals) <= MaxPopulation }

InitPct ==
    /\ all_scores \in Populations
    /\ percentiles = [t \in QueryScores |-> PctNone]
    /\ pct_done = FALSE
    /\ IdleAcq /\ IdleTotal /\ IdleRank /\ IdleLoad /\ IdleCli

CalculatePercentileRank ==
    /\ ~pct_done
    /\ percentiles' =
           [t \in QueryScores |-> calculate_percentile_rank(t, all_scores)]
    /\ pct_done' = TRUE
    /\ UNCHANGED <<all_scores, acqVars, totVars, rankVars, loadVars, cliVars>>

NextPct == CalculatePercentileRank

SpecPct == InitPct /\ [][NextPct]_vars

(***************************************************************************)
(* Vocabulary of the claims about acquisition.  These definitions restate  *)
(* the claims' words on the observable state (the store before and after   *)
(* the last call, its arguments, its result and its oracle requests); they *)
(* do not use the operators that model the call.                           *)
(***************************************************************************)
IsAcquisition == op.name \in {"score_single_ticker", "get_company_moat_score"}

\* the input of the last call, trimmed and upper-cased
CallTicker == Upper(Strip(op.input_str))
CallIsValid == CallTicker \in DOMAIN load_ticker_lookup
CallName == load_ticker_lookup[CallTicker]

\* the key under which a store holds the record of the call's ticker: the
\* ticker, else the lower-cased ticker, else the lower-cased company name
RecordKeyIn(companies) ==
    IF CallTicker \in StoreKeys(companies) THEN CallTicker
    ELSE IF Lower(CallTicker) \in StoreKeys(companies) THEN Lower(CallTicker)
    ELSE Lower(CallName)

HoldsRecordIn(companies) == RecordKeyIn(companies) \in StoreKeys(companies)

RecordIn(companies) ==
    LET k == RecordKeyIn(companies)
        at == {i \in 1..Len(companies) : companies[i].key = k}
    IN  companies[CHOOSE i \in at : TRUE].data

\* a metric value is missing when it is absent or falsy
IsMissing(v) == v \in {Absent, NoneVal, <<>>}
MissingIn(record) == {k \in MetricKeys : IsMissing(record[k])}

\* the metrics the last call asked the oracle for
AskedKeys == {oracle_log[i][2] : i \in 1..Len(oracle_log)}

(***************************************************************************)
(* C1  Idempotent acquisition: when score_single_ticker returned success,  *)
(* an immediately following call with the same arguments issues no oracle  *)
(* call, returns the same scores and leaves the store unchanged, whatever  *)
(* the oracle answered in the first call.                                  *)
(***************************************************************************)
C1_IdempotentAcquisition ==
    [][ ( /\ op.name = "score_single_ticker"
          /\ ret.kind = "success"
          /\ op' = op )
        => ( /\ oracle_log' = <<>>
             /\ ret'.kind = "success"
             /\ ret'.scores = ret.scores
             /\ scores_file' = scores_file ) ]_vars

(***************************************************************************)
(* C2  Partial-merge safety: when the stored record of a valid ticker is   *)
(* missing exactly one registry metric, acquisition issues exactly one     *)
(* oracle call, for that metric, and every registry metric value that was  *)
(* present has the same value in the returned and in the persisted record. *)
(* Stated for the calls in which the oracle does not fail and for records  *)
(* without the legacy score key, where the claim is least demanding.       *)
(***************************************************************************)
C2_PartialMergeSafety ==
    ( /\ IsAcquisition /\ CallIsValid
      /\ HoldsRecordIn(before)
      /\ Cardinality(MissingIn(RecordIn(before))) = 1
      /\ RecordIn(before)["score"] = Absent
      /\ ret.kind # "error" )
    => ( /\ Len(oracle_log) = 1
         /\ AskedKeys = MissingIn(RecordIn(before))
         /\ HoldsRecordIn(scores_file)
         /\ \A k \in MetricKeys \ MissingIn(RecordIn(before)) :
               /\ RecordIn(scores_file)[k] = RecordIn(before)[k]
               /\ op.name = "score_single_ticker" =>
                     (ret.kind = "success" /\ ret.scores[k] = RecordIn(before)[k]) )

(***************************************************************************)
(* C3  A complete stored record (every registry metric truthy, found under *)
(* the ticker, the lower-cased ticker or the lower-cased company name, in  *)
(* that order) is returned as stored: no oracle call, no write.            *)
(***************************************************************************)
C3_CompleteRecordReturned ==
    ( /\ IsAcquisition /\ CallIsValid
      /\ HoldsRecordIn(before)
      /\ MissingIn(RecordIn(before)) = {} )
    => ( /\ oracle_log = <<>>
         /\ scores_file = before
         /\ op.name = "score_single_ticker" =>
               /\ ret.kind = "success"
               /\ \A k \in MetricKeys : ret.scores[k] = RecordIn(before)[k] )

\* a complete legacy record, keyed by the lower-cased company name, was
\* returned by score_single_ticker
C3_Witness ==
    /\ op.name = "score_single_ticker" /\ CallIsValid
    /\ HoldsRecordIn(before)
    /\ RecordKeyIn(before) = Lower(N_APPLE)
    /\ MissingIn(RecordIn(before)) = {}
    /\ ret.kind = "success" /\ ret.already_scored

(***************************************************************************)
(* C4  Merge never deletes keys: after acquisition filled a partial        *)
(* record, every key of the stored record (registry metric or bookkeeping  *)
(* key) is still in the stored record with the same value.  Stated for a   *)
(* record stored under the ticker itself, which the call rewrites in place.*)
(***************************************************************************)
C4_MergeKeepsKeys ==
    ( /\ IsAcquisition /\ CallIsValid
      /\ HoldsRecordIn(before)
      /\ RecordKeyIn(before) = CallTicker
      /\ MissingIn(RecordIn(before)) # {}
      /\ scores_file # before )
    => ( /\ HoldsRecordIn(scores_file)
         /\ \A f \in Fields :
               RecordIn(before)[f] # Absent =>
                   RecordIn(scores_file)[f] = RecordIn(before)[f] )

C6_KeyCanonicalization ==
    [][ ( /\ op.name = "score_single_ticker"
          /\ ret.kind = "success" /\ ~ret.already_scored
          /\ op'.name = "score_single_ticker"
          /\ op'.input_str # op.input_str
          /\ Upper(Strip(op'.input_str)) = Upper(Strip(op.input_str)) )
        => ( /\ oracle_log' = <<>>
             /\ ret'.kind = "success"
             /\ ret'.ticker = ret.ticker
             /\ ret'.scores = ret.scores
             /\ scores_file' = scores_file ) ]_vars

(***************************************************************************)
(* Claims about aggregation.  The numbers the claims speak of are written  *)
(* here independently of the float() model: the value of each numeric text *)
(* in tenths, and nothing for a value that is not a number.                *)
(***************************************************************************)
NumberTenths ==
    (<<"0">> :> 0) @@ (<<"7">> :> 70) @@ (<<"1", "0">> :> 100) @@
    (<<" ", "3", " ">> :> 30) @@ (<<"7", ".", "5">> :> 75)

ClaimedContribution(score_key, value) ==
    IF value \notin DOMAIN NumberTenths THEN 0
    ELSE IF is_reverse(score_key)
         THEN ((100 - NumberTenths[value]) * SCORE_WEIGHTS[score_key]) \div 10
         ELSE (NumberTenths[value] * SCORE_WEIGHTS[score_key]) \div 10

RECURSIVE ClaimedSum(_, _)
ClaimedSum(record, keys) ==
    IF keys = {} THEN 0
    ELSE LET k == CHOOSE x \in keys : TRUE
         IN  ClaimedContribution(k, record[k]) + ClaimedSum(record, keys \ {k})

AllMetricsPresent(record) == \A k \in MetricKeys : record[k] # Absent

\* the record whose metrics are all text that is not a number, except those
\* given
OnlyMetrics(given) ==
    [f \in Fields |->
        IF f \in DOMAIN given THEN given[f]
        ELSE IF f \in MetricKeys THEN <<"N", "/", "A">> ELSE Absent]

\* C7: for a record that holds every registry metric, calculate_total_score
\* returns the sum of (10 - value) * weight over the reverse metrics and
\* value * weight over the others, a value that is not a number (None, empty
\* text, other text) contributing zero without an error; a reverse metric
\* of weight 10 contributes 100 at '0' and 0 at '10', a non-reverse metric
\* of weight 10 contributes 70 at '7'.
C7_TotalIsWeightedSum ==
    (total_done /\ AllMetricsPresent(scores_dict)) =>
        /\ total = ClaimedSum(scores_dict, MetricKeys)
        /\ (scores_dict = OnlyMetrics("riskiness_score" :> <<"0">>)) => total = 100
        /\ (scores_dict = OnlyMetrics("riskiness_score" :> <<"1", "0">>)) => total = 0
        /\ (scores_dict = OnlyMetrics("moat_score" :> <<"7">>)) => total = 70

C7_Witness ==
    /\ total_done
    /\ scores_dict = OnlyMetrics("riskiness_score" :> <<"0">>)
    /\ total = 100

(***************************************************************************)
(* Claims about the percentile.                                            *)
(***************************************************************************)
PopulationSize == SumOver(all_scores, PctTotals)

CountAtMost(score) == SumOver(all_scores, {s \in PctTotals : s <= score})

\* C8: calculate_percentile_rank(total, population) is
\* floor(100 * |{s in population : s <= total}| / |population|), a number in
\* 0..100; for the two totals 150 and 100 it is 100 and 50.
C8_PercentileIsFloor ==
    (pct_done /\ PopulationSize > 0) =>
        /\ \A t \in QueryScores :
              /\ percentiles[t] = (100 * CountAtMost(t)) \div PopulationSize
              /\ percentiles[t] \in 0..100
        /\ (all_scores = (100 :> 1) @@ (150 :> 1) @@ (170 :> 0)) =>
              (percentiles[150] = 100 /\ percentiles[100] = 50)

\* C9: in a population of at least 3 distinct totals, for every two totals
\* a < b the percentile of b is at least the percentile of a.
C9_PercentileMonotone ==
    (pct_done /\ \A t \in PctTotals : all_scores[t] > 0) =>
        \A a \in QueryScores, b \in QueryScores :
            a < b => percentiles[b] >= percentiles[a]

C9_Witness ==
    /\ pct_done
    /\ \A t \in PctTotals : all_scores[t] > 0
    /\ percentiles[100] < percentiles[150]
    /\ percentiles[150] < percentiles[170]

(***************************************************************************)
(* Oracle-comparison ranking (grok_moat_sorter.py).  A company is given by *)
(* its ticker: its name enters only the text of the prompt.                *)
(***************************************************************************)
COMPANIES ==
    << <<"A","A","P","L">>, <<"M","S","F","T">>, <<"G","O","O","G","L">>,
       <<"A","M","Z","N">>, <<"N","V","D","A">>, <<"M","E","T","A">>,
       <<"T","S","L","A">>, <<"J","P","M">>, <<"V">>, <<"J","N","J">> >>

\* the companies that are ranked here: the first MaxCompanies of this order
CompanyChoice == <<5, 9, 1, 2, 3, 4, 6, 7, 8, 10>>

RankedPool == { COMPANIES[CompanyChoice[k]] : k \in 1..MaxCompanies }

InjectiveSeqs(S, n) ==
    { q \in [1..n -> S] : \A a \in 1..n, b \in 1..n : a # b => q[a] # q[b] }

Range(q) == { q[k] : k \in DOMAIN q }

IndexOf(q, x) == CHOOSE k \in DOMAIN q : q[k] = x

\* The oracle.  A consistent one holds a strict total order (truth,
\* strongest first) and names the stronger of the two companies, by its
\* number in the prompt or by its ticker; an undecided one answers each
\* request "equal" or with a text that names neither company, or fails;
\* any other one does any of these things on each request.
UndecidedResponses ==
    { <<"e","q","u","a","l">>,
      <<"E","q","u","i","v","a","l","e","n","t">>,
      Raises }

GrokResponses == { <<"1">>, <<" ", "2", "\n">> } \cup UndecidedResponses

AnswerStyles == {"number", "ticker"}

Oracles(input) ==
    { [mode |-> "consistent", truth |-> t, style |-> st] :
        t \in InjectiveSeqs(Range(input), Len(input)), st \in AnswerStyles }
    \cup { [mode |-> m, truth |-> <<>>, style |-> "none"] :
              m \in {"undecided", "any"} }

simple_query_with_tokens(g, company1, company2) ==
    IF g.mode = "consistent"
    THEN LET first == IndexOf(g.truth, company1) < IndexOf(g.truth, company2)
         IN  IF g.style = "number"
             THEN { IF first THEN <<"1">> ELSE <<"2">> }
             ELSE { IF first THEN company1 ELSE company2 }
    ELSE IF g.mode = "undecided" THEN UndecidedResponses
    ELSE GrokResponses

compare_companies_grok(company1, company2, answer) ==
    IF answer = Raises THEN -1
    ELSE LET response == Lower(Strip(answer))
         IN  IF Contains(<<"1">>, response) \/ Contains(Lower(company1), response)
             THEN -1
             ELSE IF Contains(<<"2">>, response)
                     \/ Contains(Lower(company2), response)
                  THEN 1
                  ELSE -1

\* One active call of merge_sort_companies: its argument, where it stands
\* (before the split, in the left call, in the right call, in merge), the
\* two sorted halves, the locals of merge and the number of comparisons
\* merge has asked for.
Frame(list) ==
    [companies |-> list, phase |-> "start", left |-> <<>>, right |-> <<>>,
     i |-> 0, j |-> 0, result |-> <<>>, asked |-> 0]

Mid(list) == Len(list) \div 2

Top == call_stack[Len(call_stack)]

\* return value to the caller of the innermost call: main() at the bottom,
\* else the call below, which goes on with its right half or with merge
Return(value) ==
    LET below == SubSeq(call_stack, 1, Len(call_stack) - 1)
    IN  IF below = <<>>
        THEN /\ call_stack' = <<>>
             /\ sorted_companies' = value
             /\ sort_done' = TRUE
        ELSE LET caller == below[Len(below)]
             IN  /\ call_stack' =
                      IF caller.phase = "left"
                      THEN [below EXCEPT ![Len(below)] =
                                [caller EXCEPT !.left = value, !.phase = "right"]]
                           \o << Frame(SubSeq(caller.companies,
                                              Mid(caller.companies) + 1,
                                              Len(caller.companies))) >>
                      ELSE [below EXCEPT ![Len(below)] =
                                [caller EXCEPT !.right = value, !.phase = "merge"]]
                 /\ UNCHANGED <<sorted_companies, sort_done>>

\* a split whose left half starts one element late
merge_sort_companies_OffByOne ==
    /\ call_stack # <<>>
    /\ Top.phase = "start"
    /\ IF Len(Top.companies) <= 1
       THEN Return(Top.companies)
       ELSE /\ call_stack' =
                  [call_stack EXCEPT ![Len(call_stack)].phase = "left"]
                  \o << Frame(SubSeq(Top.companies, 2, Mid(Top.companies))) >>
            /\ UNCHANGED <<sorted_companies, sort_done>>
    /\ UNCHANGED <<ranked_input, grok, api_call_count, grok_answer>>
    /\ UNCHANGED <<acqVars, totVars, pctVars, loadVars, cliVars>>

merge_sort_companies ==
    /\ call_stack # <<>>
    /\ Top.phase = "start"
    /\ IF Len(Top.companies) <= 1
       THEN Return(Top.companies)
       ELSE /\ call_stack' =
                  [call_stack EXCEPT ![Len(call_stack)].phase = "left"]
                  \o << Frame(SubSeq(Top.companies, 1, Mid(Top.companies))) >>
            /\ UNCHANGED <<sorted_companies, sort_done>>
    /\ UNCHANGED <<ranked_input, grok, api_call_count, grok_answer>>
    /\ UNCHANGED <<acqVars, totVars, pctVars, loadVars, cliVars>>

merge_compare_RetriesFailure ==
    /\ call_stack # <<>>
    /\ Top.phase = "merge"
    /\ Top.i < Len(Top.left) /\ Top.j < Len(Top.right)
    /\ \E answer \in simple_query_with_tokens(grok, Top.left[Top.i + 1],
                                              Top.right[Top.j + 1]) :
          LET comparison == compare_companies_grok(Top.left[Top.i + 1],
                                                   Top.right[Top.j + 1], answer)
          IN  /\ grok_answer' = answer
              /\ call_stack' =
                  [call_stack EXCEPT ![Len(call_stack)] =
                      IF answer = Raises
                      THEN [Top EXCEPT !.asked = @ + 1]
                      ELSE IF comparison <= 0
                      THEN [Top EXCEPT !.result = Append(@, Top.left[Top.i + 1]),
                                       !.i = @ + 1, !.asked = @ + 1]
                      ELSE [Top EXCEPT !.result = Append(@, Top.right[Top.j + 1]),
                                       !.j = @ + 1, !.asked = @ + 1]]
    /\ api_call_count' = api_call_count + 1
    /\ UNCHANGED <<ranked_input, grok, sorted_companies, sort_done>>
    /\ UNCHANGED <<acqVars, totVars, pctVars, loadVars, cliVars>>

merge_compare ==
    /\ call_stack # <<>>
    /\ Top.phase = "merge"
    /\ Top.i < Len(Top.left) /\ Top.j < Len(Top.right)
    /\ \E answer \in simple_query_with_tokens(grok, Top.left[Top.i + 1],
                                              Top.right[Top.j + 1]) :
          LET comparison == compare_companies_grok(Top.left[Top.i + 1],
                                                   Top.right[Top.j + 1], answer)
          IN  /\ grok_answer' = answer
              /\ call_stack' =
                  [call_stack EXCEPT ![Len(call_stack)] =
                      IF comparison <= 0
                      THEN [Top EXCEPT !.result = Append(@, Top.left[Top.i + 1]),
                                       !.i = @ + 1, !.asked = @ + 1]
                      ELSE [Top EXCEPT !.result = Append(@, Top.right[Top.j + 1]),
                                       !.j = @ + 1, !.asked = @ + 1]]
    /\ api_call_count' = api_call_count + 1
    /\ UNCHANGED <<ranked_input, grok, sorted_companies, sort_done>>
    /\ UNCHANGED <<acqVars, totVars, pctVars, loadVars, cliVars>>

merge_return_DropsRemainder ==
    /\ call_stack # <<>>
    /\ Top.phase = "merge"
    /\ ~(Top.i < Len(Top.left) /\ Top.j < Len(Top.right))
    /\ Return(Top.result)
    /\ UNCHANGED <<ranked_input, grok, api_call_count, grok_answer>>
    /\ UNCHANGED <<acqVars, totVars, pctVars, loadVars, cliVars>>

merge_return ==
    /\ call_stack # <<>>
    /\ Top.phase = "merge"
    /\ ~(Top.i < Len(Top.left) /\ Top.j < Len(Top.right))
    /\ Return(Top.result
              \o SubSeq(Top.left, Top.i + 1, Len(Top.left))
              \o SubSeq(Top.right, Top.j + 1, Len(Top.right)))
    /\ UNCHANGED <<ranked_input, grok, api_call_count, grok_answer>>
    /\ UNCHANGED <<acqVars, totVars, pctVars, loadVars, cliVars>>

RankInputs == UNION { InjectiveSeqs(RankedPool, n) : n \in 0..MaxCompanies }

\* main() ranks the whole of COMPANIES: that run is followed for consistent
\* oracles of a few orders (the input order, its reverse, and the one in
\* which every merge alternates between its two halves to the last element)
Reverse(q) == [k \in 1..Len(q) |-> q[Len(q) + 1 - k]]

AlternatingOrder == <<4, 9, 1, 6, 3, 8, 2, 7, 5, 10>>

Alternate(q) == [k \in 1..Len(q) |-> q[AlternatingOrder[k]]]

MainOracles ==
    { [mode |-> "consistent", truth |-> t, style |-> st] :
        t \in { COMPANIES, Reverse(COMPANIES), Alternate(COMPANIES) },
        st \in AnswerStyles }

InitRank ==
    /\ \/ /\ ranked_input \in RankInputs
          /\ grok \in Oracles(ranked_input)
       \/ /\ ranked_input = COMPANIES
          /\ grok \in MainOracles
    /\ call_stack = << Frame(ranked_input) >>
    /\ sorted_companies = <<>>
    /\ sort_done = FALSE
    /\ api_call_count = 0
    /\ grok_answer = NoAnswer
    /\ IdleAcq /\ IdleTotal /\ IdlePct /\ IdleLoad /\ IdleCli

NextRank == merge_sort_companies \/ merge_compare \/ merge_return

SpecRank == InitRank /\ [][NextRank]_vars

\* the interpreter runs the ranking on as long as a step remains
SpecRankFair == SpecRank /\ WF_vars(NextRank)

(***************************************************************************)
(* Claims about the ranking.                                               *)
(***************************************************************************)

\* C10: with an oracle that always answers according to one fixed strict
\* total order, merge_sort_companies returns exactly that order, strongest
\* first, whatever the order of its input.
C10_RankingReturnsTruthOrder ==
    (sort_done /\ grok.mode = "consistent") => sorted_companies = grok.truth

CeilLog2(n) == CHOOSE k \in 0..n : Pow2(k) >= n /\ (k = 0 \/ Pow2(k - 1) < n)

\* C11: whatever the oracle answers (consistently, inconsistently, a tie,
\* or by failing), ranking n entities raises the call counter at most
\* n * ceil(log2 n) times (at most 40 times for n = 10), and not at all for
\* n <= 1.
C11_CallBound ==
    LET n == Len(ranked_input)
    IN  /\ n <= 1 => api_call_count = 0
        /\ n >= 2 => api_call_count <= n * CeilLog2(n)
        /\ n = 10 => api_call_count <= 40

C11_Witness ==
    /\ sort_done
    /\ ranked_input = COMPANIES
    /\ api_call_count = 25

(***************************************************************************)
(* Key migration (migrate_scores_to_lowercase).                            *)
(***************************************************************************)
\* ord() of the characters of dates and timestamps
CharCode(c) ==
    IF c = "-" THEN 45
    ELSE IF IsDigit(c) THEN 48 + DigitVal(c)
    ELSE IF c = ":" THEN 58
    ELSE 84

\* a > b on str
RECURSIVE StrGreater(_, _)
StrGreater(a, b) ==
    IF a = <<>> THEN FALSE
    ELSE IF b = <<>> THEN TRUE
    ELSE IF a[1] = b[1] THEN StrGreater(Tail(a), Tail(b))
    ELSE CharCode(a[1]) > CharCode(b[1])

\* a > b on datetime: year, month, day, hour, minute, second in turn
RECURSIVE TupleGreater(_, _)
TupleGreater(a, b) ==
    IF a = <<>> THEN FALSE
    ELSE IF a[1] = b[1] THEN TupleGreater(Tail(a), Tail(b))
    ELSE a[1] > b[1]

\* datetime.fromisoformat of 'YYYY-MM-DD' or 'YYYY-MM-DDTHH:MM:SS'; a date
\* alone is midnight
fromisoformat_DateOnly(text) ==
    << DigitsToNat(SubSeq(text, 1, 4)), DigitsToNat(SubSeq(text, 6, 7)),
       DigitsToNat(SubSeq(text, 9, 10)), 0, 0, 0 >>

fromisoformat(text) ==
    << DigitsToNat(SubSeq(text, 1, 4)), DigitsToNat(SubSeq(text, 6, 7)),
       DigitsToNat(SubSeq(text, 9, 10)) >>
    \o IF Len(text) > 10
       THEN << DigitsToNat(SubSeq(text, 12, 13)), DigitsToNat(SubSeq(text, 15, 16)),
               DigitsToNat(SubSeq(text, 18, 19)) >>
       ELSE << 0, 0, 0 >>

DefaultDate == <<"1","9","0","0","-","0","1","-","0","1">>

\* whether the record met later replaces the one kept so far
NewerThan(data, existing) ==
    LET existing_date == DictGetDefault(existing, "date", DefaultDate)
        new_date == DictGetDefault(data, "date", DefaultDate)
    IN  IF existing["timestamp"] # Absent /\ data["timestamp"] # Absent
        THEN TupleGreater(fromisoformat(data["timestamp"]),
                          fromisoformat(existing["timestamp"]))
        ELSE StrGreater(new_date, existing_date)

\* the loop over scores_data["companies"].items(), from its idx-th item on
RECURSIVE MigrateFrom_KeepsKeyOfNewer(_, _, _)
MigrateFrom_KeepsKeyOfNewer(companies, idx, lowercase_companies) ==
    IF idx > Len(companies) THEN lowercase_companies
    ELSE LET company == companies[idx].key
             data == companies[idx].data
             company_lower == Lower(company)
         IN  MigrateFrom_KeepsKeyOfNewer(companies, idx + 1,
                 IF ~HasKey(lowercase_companies, company_lower)
                 THEN PutData(lowercase_companies, company_lower, data)
                 ELSE IF NewerThan(data, GetData(lowercase_companies, company_lower))
                      THEN PutData(lowercase_companies, company, data)
                      ELSE lowercase_companies)

RECURSIVE MigrateFrom(_, _, _)
MigrateFrom(companies, idx, lowercase_companies) ==
    IF idx > Len(companies) THEN lowercase_companies
    ELSE LET company == companies[idx].key
             data == companies[idx].data
             company_lower == Lower(company)
         IN  MigrateFrom(companies, idx + 1,
                 IF ~HasKey(lowercase_companies, company_lower)
                 THEN PutData(lowercase_companies, company_lower, data)
                 ELSE IF NewerThan(data, GetData(lowercase_companies, company_lower))
                      THEN PutData(lowercase_companies, company_lower, data)
                      ELSE lowercase_companies)

RetCount(n) == [kind |-> "count", count |-> n]

OpMigrate ==
    [name |-> "migrate_scores_to_lowercase", input_str |-> <<>>,
     silent |-> FALSE, batch_mode |-> FALSE]

migrate_scores_to_lowercase ==
    /\ \E out \in {MigrateFrom(scores_file, 1, <<>>)} :
          /\ scores_file' = out
          /\ ret' = RetCount(Len(out))
    /\ op' = OpMigrate
    /\ before' = scores_file
    /\ oracle_log' = <<>>
    /\ UNCHANGED <<totVars, pctVars, rankVars, loadVars, cliVars>>

\* Stores a legacy file may hold: up to MaxStoreKeys records under keys that
\* differ in case only or not only, each with or without a date and a
\* timestamp.  TS_MIDNIGHT and TS_DAY write the same instant.
DATE2 == <<"2","0","2","4","-","0","2","-","1","5">>
TS_DAY == <<"2","0","2","4","-","0","1","-","1","5">>
TS_MIDNIGHT == TS_DAY \o <<"T","0","0",":","0","0",":","0","0">>
TS_MORNING == TS_DAY \o <<"T","1","0",":","3","0",":","0","0">>

MigKeys ==
    { T_AAPL, Lower(T_AAPL), <<"A","a","p","l">>, Lower(T_MSFT) }

MigRecords ==
    { [f \in Fields |->
          IF f = "moat_score" THEN m
          ELSE IF f = "date" THEN d
          ELSE IF f = "timestamp" THEN t
          ELSE Absent] :
        m \in { <<"7">>, <<"8">> },
        d \in { Absent, DATE1, DATE2 },
        t \in { Absent, TS_DAY, TS_MIDNIGHT, TS_MORNING } }

InitMig ==
    /\ \E n \in 0..MaxStoreKeys :
          \E ks \in InjectiveSeqs(MigKeys, n), rs \in [1..n -> MigRecords] :
              scores_file = [i \in 1..n |-> [key |-> ks[i], data |-> rs[i]]]
    /\ op = OpIdle
    /\ before = scores_file
    /\ ret = RetNone
    /\ oracle_log = <<>>
    /\ IdleTotal /\ IdlePct /\ IdleRank /\ IdleLoad /\ IdleCli

NextMig == migrate_scores_to_lowercase

SpecMig == InitMig /\ [][NextMig]_vars

(***************************************************************************)
(* Claims about key migration.                                             *)
(***************************************************************************)
IsMigration(o) == o.name = "migrate_scores_to_lowercase"

KeysLowerAndUnique(companies) ==
    /\ \A i \in 1..Len(companies) : companies[i].key = Lower(companies[i].key)
    /\ \A i \in 1..Len(companies), j \in 1..Len(companies) :
          i # j => Lower(companies[i].key) # Lower(companies[j].key)

\* C12: after one run of migrate_scores_to_lowercase every key of the store
\* is lower-case and no two keys are equal ignoring case, and a run that
\* follows a run leaves the persisted store as it found it.
C12_MigrationIdempotent ==
    [][ IsMigration(op') =>
          /\ KeysLowerAndUnique(scores_file')
          /\ IsMigration(op) => scores_file' = scores_file ]_vars

C12_Witness ==
    /\ IsMigration(op)
    /\ Len(scores_file) < Len(before)
    /\ ~KeysLowerAndUnique(before)
    /\ Len(scores_file) >= 2

\* the order of the instants and of the days the stores hold, written out
InstantOf ==
    (TS_DAY :> 1) @@ (TS_MIDNIGHT :> 1) @@ (TS_MORNING :> 2)

DayOf(d) == IF d = Absent THEN 0 ELSE IF d = DATE1 THEN 1 ELSE 2

ClaimKept(first, second) ==
    IF first["timestamp"] # Absent /\ second["timestamp"] # Absent
    THEN IF InstantOf[second["timestamp"]] > InstantOf[first["timestamp"]]
         THEN second ELSE first
    ELSE IF DayOf(second["date"]) > DayOf(first["date"])
         THEN second ELSE first

\* the pairs of keys of a store that collapse to one lower-case key which no
\* third key collapses to
CollidingPairs(companies) ==
    { p \in (1..Len(companies)) \X (1..Len(companies)) :
        /\ p[1] < p[2]
        /\ Lower(companies[p[1]].key) = Lower(companies[p[2]].key)
        /\ \A k \in 1..Len(companies) :
              Lower(companies[k].key) = Lower(companies[p[1]].key)
                  => k \in {p[1], p[2]} }

EntriesAt(companies, key) == { i \in 1..Len(companies) : companies[i].key = key }

\* C20: when two keys collapse to one lower-case key, the migrated store
\* holds under that key, unmodified, the record with the strictly later
\* timestamp if both have a timestamp, else the one with the strictly later
\* date, else the one met first; the other record is gone.
C20_CollisionKeepsLatest ==
    IsMigration(op) =>
        \A p \in CollidingPairs(before) :
            LET key == Lower(before[p[1]].key)
                at == EntriesAt(scores_file, key)
            IN  /\ Cardinality(at) = 1
                /\ \A i \in at :
                      scores_file[i].data =
                          ClaimKept(before[p[1]].data, before[p[2]].data)
                /\ \A i \in 1..Len(scores_file) :
                      scores_file[i].key \notin
                          ({before[p[1]].key, before[p[2]].key} \ {key})

C20_Witness ==
    /\ IsMigration(op)
    /\ \E p \in CollidingPairs(before) :
          /\ before[p[1]].data["timestamp"] = TS_DAY
          /\ before[p[2]].data["timestamp"] = TS_MORNING
          /\ before[p[1]].data["date"] = DATE2
          /\ before[p[2]].data["date"] = DATE1
          /\ before[p[1]].data # before[p[2]].data
          /\ \E i \in 1..Len(scores_file) :
                scores_file[i].data = before[p[2]].data

(***************************************************************************)
(* load_scores and its caller get_all_total_scores.  SCORES_FILE is        *)
(* missing, or cannot be opened, or holds bytes that are not UTF-8, or     *)
(* text that is not JSON (an empty file too), or a JSON value: an object   *)
(* with "companies", an object without it, an array, null.                 *)
(***************************************************************************)
FileKinds ==
    { "missing", "unreadable", "invalid_utf8", "invalid_json",
      "object", "object_without_companies", "array", "null" }

\* what open() and json.load() raise on the file
ReadRaises(file) ==
    IF file.kind = "unreadable" THEN "PermissionError"
    ELSE IF file.kind = "invalid_utf8" THEN "UnicodeDecodeError"
    ELSE IF file.kind = "invalid_json" THEN "JSONDecodeError"
    ELSE "none"

\* except (json.JSONDecodeError, FileNotFoundError)
LoadCatches == { "JSONDecodeError", "FileNotFoundError" }

EmptyStoreDoc == [raised |-> "none", json |-> "object", value |-> <<>>]

load_scores(file) ==
    IF file.kind = "missing" THEN EmptyStoreDoc
    ELSE IF ReadRaises(file) \in LoadCatches THEN EmptyStoreDoc
    ELSE IF ReadRaises(file) # "none"
         THEN [raised |-> ReadRaises(file), json |-> "none", value |-> <<>>]
         ELSE [raised |-> "none", json |-> file.kind, value |-> file.companies]

get_all_total_scores(file) ==
    LET scores_data == load_scores(file)
    IN  IF scores_data.raised # "none" THEN scores_data
        ELSE IF scores_data.json = "object_without_companies"
             THEN [raised |-> "KeyError", json |-> "none", value |-> <<>>]
        ELSE IF scores_data.json # "object"
             THEN [raised |-> "TypeError", json |-> "none", value |-> <<>>]
        ELSE [raised |-> "none", json |-> "array",
              value |-> [i \in 1..Len(scores_data.value) |->
                            calculate_total_score(scores_data.value[i].data)]]

LoadScores ==
    /\ load_ret = NotCalled
    /\ load_ret' = load_scores(raw_file)
    /\ UNCHANGED <<raw_file, all_totals>>
    /\ UNCHANGED <<acqVars, totVars, pctVars, rankVars, cliVars>>

GetAllTotalScores ==
    /\ all_totals = NotCalled
    /\ all_totals' = get_all_total_scores(raw_file)
    /\ UNCHANGED <<raw_file, load_ret>>
    /\ UNCHANGED <<acqVars, totVars, pctVars, rankVars, cliVars>>

InitLoad ==
    /\ \E kind \in FileKinds :
          \E stored \in (IF kind = "object" THEN InitStores ELSE {<<>>}) :
              raw_file = [kind |-> kind, companies |-> stored]
    /\ load_ret = NotCalled
    /\ all_totals = NotCalled
    /\ IdleAcq /\ IdleTotal /\ IdlePct /\ IdleRank /\ IdleCli

NextLoad == LoadScores \/ GetAllTotalScores

SpecLoad == InitLoad /\ [][NextLoad]_vars

\* C13: load_scores never raises; for a file that is missing or cannot be
\* decoded it returns the empty store; whatever it returns is a document
\* with a "companies" collection, so get_all_total_scores can index it.
\* (Stated for the files that can be opened.)
C13_LoadNeverRaises ==
    raw_file.kind # "unreadable" =>
        /\ load_ret # NotCalled =>
              /\ load_ret.raised = "none"
              /\ load_ret.json = "object"
              /\ raw_file.kind \in {"missing", "invalid_utf8", "invalid_json"}
                    => load_ret = EmptyStoreDoc
        /\ all_totals # NotCalled => all_totals.raised = "none"

(***************************************************************************)
(* Acquisition for a ticker that both ticker files define.                 *)
(***************************************************************************)
OverrideInputs == { T_MSFT, Lower(T_MSFT) }

OverrideKeys ==
    { T_MSFT, Lower(T_MSFT), Lower(N_MICROSOFT), Lower(N_MICROSOFT_CORP) }

InitOverride ==
    /\ scores_file \in
          {<<>>} \cup { <<[key |-> k, data |-> r]>> :
                          k \in OverrideKeys, r \in InitRecords }
    /\ op = OpIdle
    /\ before = scores_file
    /\ ret = RetNone
    /\ oracle_log = <<>>
    /\ IdleTotal /\ IdlePct /\ IdleRank /\ IdleLoad /\ IdleCli

ScoreOverriddenTicker ==
    /\ \E input_str \in OverrideInputs, silent \in BOOLEAN, batch_mode \in BOOLEAN :
            score_single_ticker(input_str, silent, batch_mode)
    /\ UNCHANGED <<totVars, pctVars, rankVars, loadVars, cliVars>>

GetOverriddenMoatScore ==
    /\ \E input_str \in OverrideInputs : get_company_moat_score(input_str)
    /\ UNCHANGED <<totVars, pctVars, rankVars, loadVars, cliVars>>

NextOverride == ScoreOverriddenTicker \/ GetOverriddenMoatScore

SpecOverride == InitOverride /\ [][NextOverride]_vars

\* the names the two files give a ticker, read off the files
NamesIn(items, t) ==
    { Strip(items[i].name) :
        i \in { j \in 1..Len(items) : Upper(Strip(items[j].ticker)) = t } }

DefinedByBoth ==
    { t \in { Upper(Strip(TickerFile[i].ticker)) : i \in 1..Len(TickerFile) } :
        NamesIn(TickerDefinitionsFile, t) # {} }

\* C14: a ticker that the reference table and the override table both
\* define is mapped by load_ticker_lookup to the override's name, and an
\* acquisition for it asks the oracle about that name and returns it.
C14_OverridePrecedence ==
    \A t \in DefinedByBoth :
        /\ NamesIn(TickerDefinitionsFile, t) # NamesIn(TickerFile, t)
        /\ load_ticker_lookup[t] \in NamesIn(TickerDefinitionsFile, t)
        /\ (IsAcquisition /\ CallTicker = t) =>
              /\ \A i \in 1..Len(oracle_log) :
                    oracle_log[i][1] \in NamesIn(TickerDefinitionsFile, t)
              /\ ret.kind = "success" =>
                    ret.company_name \in NamesIn(TickerDefinitionsFile, t)

C14_Witness ==
    /\ op.name = "score_single_ticker"
    /\ CallTicker = T_MSFT
    /\ ret.kind = "success"
    /\ ret.company_name = N_MICROSOFT_CORP
    /\ Len(oracle_log) = NumMetrics
    /\ \A i \in 1..Len(oracle_log) : oracle_log[i][1] = N_MICROSOFT_CORP

(***************************************************************************)
(* Acquisitions and key migrations in any order, under an oracle that      *)
(* always returns a non-empty answer.                                      *)
(***************************************************************************)
AnsweringOutcomes == { t \in OracleTexts : Strip(t) # <<>> }

ScoreAnswered ==
    /\ \E input_str \in AcqInputs, silent \in BOOLEAN, batch_mode \in BOOLEAN :
            ScoreUnder(AnsweringOutcomes, input_str, silent, batch_mode)
    /\ UNCHANGED <<totVars, pctVars, rankVars, loadVars, cliVars>>

NextCache == ScoreAnswered \/ migrate_scores_to_lowercase

SpecCache == InitAcq /\ [][NextCache]_vars

\* the keys under which a store can hold the record of an entity, and the
\* metrics for which it holds a value for the entity under any of them
EntityKeys(t) == { t, Lower(t), Lower(load_ticker_lookup[t]) }

PersistedFor(companies, t) ==
    { kv \in MetricKeys \X { <<"7">>, <<"8">> } :
        \E i \in 1..Len(companies) :
            /\ companies[i].key \in EntityKeys(t)
            /\ companies[i].data[kv[1]] = kv[2] }

\* C15: over acquisitions and migrations, under an oracle that always
\* answers with a non-empty text, no step asks the oracle for a metric of
\* which the store holds a value for the entity, and no step loses a metric
\* value that the store holds for an entity.
C15_NeverRequeryNeverLose ==
    [][ \A t \in DOMAIN load_ticker_lookup :
          /\ PersistedFor(scores_file, t) \subseteq PersistedFor(scores_file', t)
          /\ (op'.name = "score_single_ticker"
                  /\ Upper(Strip(op'.input_str)) = t) =>
                \A i \in 1..Len(oracle_log') :
                    \A kv \in PersistedFor(scores_file, t) :
                        oracle_log'[i][2] # kv[1] ]_vars

(***************************************************************************)
(* Claims about an oracle failure during acquisition.                      *)
(***************************************************************************)

\* C16: when the oracle fails on a metric after other missing metrics were
\* obtained in the same call of score_single_ticker, the values obtained
\* are in the persisted record or in the returned record.
C16_PartialProgressKept ==
    (op.name = "score_single_ticker" /\ ret.kind = "error"
        /\ Len(oracle_log) >= 2) =>
        \A i \in 1..(Len(oracle_log) - 1) :
            LET k == oracle_log[i][2]
            IN  \/ /\ HoldsRecordIn(scores_file)
                   /\ RecordIn(scores_file)[k] \notin {Absent, NoneVal}
                \/ ret.scores[k] \notin {Absent, NoneVal}

\* the metrics the record of the call's ticker lacked before the call
MissingBefore ==
    IF HoldsRecordIn(before) THEN MissingIn(RecordIn(before)) ELSE MetricKeys

\* C17: a call that queries asks the oracle for every metric the record
\* lacks, whichever of its requests fail.
C17_BatchContinuation ==
    (/\ IsAcquisition /\ CallIsValid
     /\ op.name = "get_company_moat_score" \/ op.batch_mode \/ ~op.silent
     /\ HoldsRecordIn(before) => RecordIn(before)["score"] = Absent) =>
        Cardinality(AskedKeys) = Cardinality(MissingBefore)

(***************************************************************************)
(* Claims about merge.                                                     *)
(***************************************************************************)
IsComparison == api_call_count' = api_call_count + 1

\* C18: when the oracle answers "equal" or with a text that names neither
\* company, or fails, merge puts the element of the left half first; the
\* ranking always comes to its end; and when every comparison is of this
\* kind the entities are returned in their input order.
C18_DefaultPrefersLeft ==
    /\ [][ (IsComparison /\ grok_answer' \in UndecidedResponses) =>
              LET n == Len(call_stack)
              IN  /\ call_stack'[n].result =
                        Append(call_stack[n].result,
                               call_stack[n].left[call_stack[n].i + 1])
                  /\ call_stack'[n].i = call_stack[n].i + 1
                  /\ call_stack'[n].j = call_stack[n].j ]_vars
    /\ []((sort_done /\ grok.mode = "undecided")
              => sorted_companies = ranked_input)
    /\ <>sort_done

\* what the innermost call hands to its caller when it returns in this step
Delivered ==
    LET n == Len(call_stack)
    IN  IF n = 1 THEN sorted_companies'
        ELSE IF call_stack[n - 1].phase = "left" THEN call_stack'[n - 1].left
        ELSE call_stack'[n - 1].right

Smaller(a, b) == IF a <= b THEN a ELSE b

\* C19: in merge each comparison advances exactly one of the two cursors;
\* merge returns once one side is used up, with the rest of the other side
\* appended in its order and without a further request; between the lengths
\* a and b of its lists it has asked at least min(a, b) and at most
\* a + b - 1 comparisons.
C19_MergeCursors ==
    [][ (call_stack # <<>> /\ call_stack[Len(call_stack)].phase = "merge") =>
          LET n == Len(call_stack)
              m == call_stack[n]
              a == Len(m.left)
              b == Len(m.right)
          IN  IF IsComparison
              THEN \/ call_stack'[n].i = m.i + 1 /\ call_stack'[n].j = m.j
                   \/ call_stack'[n].i = m.i /\ call_stack'[n].j = m.j + 1
              ELSE /\ m.i = a \/ m.j = b
                   /\ Delivered =
                         m.result \o (IF m.i = a THEN SubSeq(m.right, m.j + 1, b)
                                      ELSE SubSeq(m.left, m.i + 1, a))
                   /\ api_call_count' = api_call_count
                   /\ m.asked >= Smaller(a, b)
                   /\ m.asked <= a + b - 1 ]_vars

C19_Witness ==
    /\ sort_done
    /\ grok.mode = "any"
    /\ Len(ranked_input) = 4
    /\ api_call_count = 4
    /\ sorted_companies # ranked_input

(***************************************************************************)
(* Custom ticker definitions and the lookup cache: add_ticker_definition,  *)
(* remove_ticker_definition and load_ticker_lookup over the file           *)
(* ticker_definitions.json.                                                *)
(***************************************************************************)
MaxDefinitionCalls == 3

T_ZZZ == <<"Z","Z","Z">>
N_ZED == <<"Z","e","d">>

\* custom_definitions[ticker] = name on a dict kept as a list of items
DefPut(defs, ticker, name) ==
    IF \E i \in 1..Len(defs) : defs[i].ticker = ticker
    THEN [i \in 1..Len(defs) |->
            IF defs[i].ticker = ticker
            THEN [ticker |-> ticker, name |-> name] ELSE defs[i]]
    ELSE Append(defs, [ticker |-> ticker, name |-> name])

DefHas(defs, ticker) == \E i \in 1..Len(defs) : defs[i].ticker = ticker

\* custom_definitions.pop(ticker)
DefPop(defs, ticker) == SelectSeq(defs, LAMBDA e : e.ticker # ticker)

RECURSIVE CustomFrom(_, _, _)
CustomFrom(file, i, defs) ==
    IF i > Len(file) THEN defs
    ELSE LET ticker_upper == Upper(Strip(file[i].ticker))
             name_stripped == Strip(file[i].name)
         IN  CustomFrom(file, i + 1,
                IF ticker_upper # <<>> /\ name_stripped # <<>>
                THEN DefPut(defs, ticker_upper, name_stripped)
                ELSE defs)

\* load_custom_ticker_definitions() on the file as it is now
custom_definitions_of(file) == CustomFrom(file, 1, <<>>)

\* load_ticker_lookup() when the cache is empty
fresh_ticker_lookup(file) ==
    LET main == TableOf(TickerFile)
        custom == TableOf(custom_definitions_of(file))
    IN  [t \in DOMAIN main \cup DOMAIN custom |->
            IF t \in DOMAIN custom THEN custom[t] ELSE main[t]]

\* save_custom_ticker_definitions: the file is rewritten, or open() fails
\* and the file stays as it was
SaveOutcomes == { "saved", "open_failed" }

CliCall(name, ticker, company_name, result) ==
    [name |-> name, ticker |-> ticker, company_name |-> company_name,
     result |-> result]

Logged(call) ==
    /\ Len(cli_log) < MaxDefinitionCalls
    /\ cli_log' = Append(cli_log, call)

add_ticker_definition(ticker, company_name, outcome) ==
    LET ticker_upper == Upper(Strip(ticker))
        company_name_stripped == Strip(company_name)
        custom_definitions ==
            DefPut(custom_definitions_of(definitions_file),
                   ticker_upper, company_name_stripped)
    IN  IF ticker_upper = <<>> \/ company_name_stripped = <<>>
        THEN /\ Logged(CliCall("add", ticker, company_name, FALSE))
             /\ UNCHANGED <<definitions_file, ticker_cache, lookup_ret>>
        ELSE IF outcome = "saved"
        THEN /\ definitions_file' = custom_definitions
             /\ ticker_cache' = NoCache
             /\ Logged(CliCall("add", ticker, company_name, TRUE))
             /\ UNCHANGED lookup_ret
        ELSE /\ Logged(CliCall("add", ticker, company_name, FALSE))
             /\ UNCHANGED <<definitions_file, ticker_cache, lookup_ret>>

remove_ticker_definition_KeepsCache(ticker, outcome) ==
    LET ticker_upper == Upper(Strip(ticker))
        custom_definitions == custom_definitions_of(definitions_file)
    IN  IF ~DefHas(custom_definitions, ticker_upper)
        THEN /\ Logged(CliCall("remove", ticker, <<>>, FALSE))
             /\ UNCHANGED <<definitions_file, ticker_cache, lookup_ret>>
        ELSE IF outcome = "saved"
        THEN /\ definitions_file' = DefPop(custom_definitions, ticker_upper)
             /\ Logged(CliCall("remove", ticker, <<>>, TRUE))
             /\ UNCHANGED <<ticker_cache, lookup_ret>>
        ELSE /\ Logged(CliCall("remove", ticker, <<>>, FALSE))
             /\ UNCHANGED <<definitions_file, ticker_cache, lookup_ret>>

remove_ticker_definition(ticker, outcome) ==
    LET ticker_upper == Upper(Strip(ticker))
        custom_definitions == custom_definitions_of(definitions_file)
    IN  IF ~DefHas(custom_definitions, ticker_upper)
        THEN /\ Logged(CliCall("remove", ticker, <<>>, FALSE))
             /\ UNCHANGED <<definitions_file, ticker_cache, lookup_ret>>
        ELSE IF outcome = "saved"
        THEN /\ definitions_file' = DefPop(custom_definitions, ticker_upper)
             /\ ticker_cache' = NoCache
             /\ Logged(CliCall("remove", ticker, <<>>, TRUE))
             /\ UNCHANGED lookup_ret
        ELSE /\ Logged(CliCall("remove", ticker, <<>>, FALSE))
             /\ UNCHANGED <<definitions_file, ticker_cache, lookup_ret>>

cached_ticker_lookup ==
    /\ ticker_cache' = IF ticker_cache # NoCache THEN ticker_cache
                       ELSE fresh_ticker_lookup(definitions_file)
    /\ lookup_ret' = ticker_cache'
    /\ Logged(CliCall("lookup", <<>>, <<>>, TRUE))
    /\ UNCHANGED definitions_file

DefTickers == { T_MSFT, Lower(T_MSFT), <<" ">> \o Lower(T_ZZZ), <<" ">> }
DefNames == { N_MICROSOFT_CORP, N_ZED \o <<" ">>, <<" ">> }

\* what ticker_definitions.json may hold when the program starts
DefinitionFiles ==
    { <<>>, TickerDefinitionsFile,
      << [ticker |-> T_ZZZ, name |-> N_ZED] >>,
      << [ticker |-> T_MSFT, name |-> N_ZED],
         [ticker |-> Lower(T_MSFT), name |-> N_MICROSOFT_CORP],
         [ticker |-> T_ZZZ, name |-> <<" ">>] >> }

InitDef ==
    /\ definitions_file \in DefinitionFiles
    /\ ticker_cache = NoCache
    /\ lookup_ret = NoCache
    /\ cli_log = <<>>
    /\ IdleAcq /\ IdleTotal /\ IdlePct /\ IdleRank /\ IdleLoad
    /\ IdleConc /\ IdleBatch /\ IdleFill

AddTickerDefinition ==
    /\ \E ticker \in DefTickers, company_name \in DefNames,
          outcome \in SaveOutcomes :
            add_ticker_definition(ticker, company_name, outcome)
    /\ UNCHANGED <<acqVars, totVars, pctVars, rankVars, loadVars, concVars, batchVars, fillVars>>

RemoveTickerDefinition ==
    /\ \E ticker \in DefTickers, outcome \in SaveOutcomes :
            remove_ticker_definition(ticker, outcome)
    /\ UNCHANGED <<acqVars, totVars, pctVars, rankVars, loadVars, concVars, batchVars, fillVars>>

LoadTickerLookup ==
    /\ cached_ticker_lookup
    /\ UNCHANGED <<acqVars, totVars, pctVars, rankVars, loadVars, concVars, batchVars, fillVars>>

NextDef == AddTickerDefinition \/ RemoveTickerDefinition \/ LoadTickerLookup

SpecDef == InitDef /\ [][NextDef]_vars

\* the reference table overridden by the definitions now on disk, read off
\* the two files: the last usable entry of a ticker in the definitions file,
\* else the last entry of the reference file
UsableDefinitions(file) ==
    SelectSeq(file, LAMBDA e : Strip(e.ticker) # <<>> /\ Strip(e.name) # <<>>)

LastNameIn(items, t) ==
    Strip(items[CHOOSE i \in 1..Len(items) :
                   /\ Upper(Strip(items[i].ticker)) = t
                   /\ \A j \in (i + 1)..Len(items) :
                         Upper(Strip(items[j].ticker)) # t].name)

Resolves(table, t) == t \in DOMAIN table

LastCall == cli_log[Len(cli_log)]

\* C21: whatever add_ticker_definition, remove_ticker_definition and
\* load_ticker_lookup calls were made, the cache is empty or equal to the
\* reference table overridden by the definitions now in the file, and so is
\* the table the last lookup returned when it is the last call; once a
\* definition was removed, a lookup maps a ticker of the reference file to
\* its reference name again and does not map any other removed ticker.
C21_CacheNeverStale ==
    LET custom == UsableDefinitions(definitions_file)
        expected(t) ==
            IF NamesIn(custom, t) # {} THEN LastNameIn(custom, t)
            ELSE LastNameIn(TickerFile, t)
        known == { t \in { Upper(Strip(x)) : x \in DefTickers \cup {T_AAPL, T_ZZZ} } :
                     NamesIn(custom, t) # {} \/ NamesIn(TickerFile, t) # {} }
        fresh(table) ==
            /\ DOMAIN table = known
            /\ \A t \in known : table[t] = expected(t)
    IN  /\ ticker_cache # NoCache => fresh(ticker_cache)
        /\ (cli_log # <<>> /\ LastCall.name = "lookup") => fresh(lookup_ret)
        /\ \A k \in 2..Len(cli_log) :
              (/\ cli_log[k].name = "lookup"
               /\ cli_log[k - 1].name = "remove"
               /\ cli_log[k - 1].result
               /\ k = Len(cli_log)) =>
                 LET t == Upper(Strip(cli_log[k - 1].ticker))
                 IN  IF NamesIn(TickerFile, t) # {}
                     THEN /\ Resolves(lookup_ret, t)
                          /\ lookup_ret[t] \in NamesIn(TickerFile, t)
                     ELSE ~Resolves(lookup_ret, t)

\* a lookup filled the cache, the override of MSFT was removed, and the next
\* lookup gives the reference name
C21_Witness ==
    /\ Len(cli_log) = 3
    /\ cli_log[1].name = "lookup"
    /\ cli_log[2].name = "remove" /\ cli_log[2].result
    /\ Upper(Strip(cli_log[2].ticker)) = T_MSFT
    /\ cli_log[3].name = "lookup"
    /\ lookup_ret[T_MSFT] = N_MICROSOFT

(***************************************************************************)
(* Two processes, each running score_single_ticker for its own ticker on   *)
(* the same scores.json: load_scores, the query loop on the process's own  *)
(* scores_data, save_scores of that scores_data.                           *)
(***************************************************************************)
WriterInput(p) == IF p = 1 THEN T_AAPL ELSE T_MSFT

\* load_scores() of score_single_ticker
writer_load(p) ==
    /\ writers[p].pc = "start"
    /\ writers' = [writers EXCEPT ![p].pc = "loaded",
                                  ![p].scores_data = scores_file]
    /\ io_log' = Append(io_log, <<p, "load">>)
    /\ UNCHANGED scores_file

\* what the rest of the call does to the process and to the file, given the
\* store that save_scores starts from
WriterFinish(p, companies) ==
    \E look \in {Lookup(companies, writers[p].input_str, TRUE)} :
    \E ans \in OracleBehaviours :
        /\ Observable(ans, look.todo)
        /\ \E out \in {Acquire(companies, writers[p].input_str, look, ans)} :
            IF out.ret.kind = "success" /\ ~out.ret.already_scored
            THEN /\ scores_file' = out.store
                 /\ writers' = [writers EXCEPT ![p].pc = "done",
                                               ![p].wrote = TRUE,
                                               ![p].storage_key = look.ticker,
                                               ![p].record = out.ret.scores]
                 /\ io_log' = Append(io_log, <<p, "save">>)
            ELSE /\ writers' = [writers EXCEPT ![p].pc = "done"]
                 /\ UNCHANGED <<scores_file, io_log>>

\* a save that reads scores.json again before it adds its record
writer_save_Reloads(p) ==
    /\ writers[p].pc = "loaded"
    /\ WriterFinish(p, scores_file)

\* the query loop and save_scores(scores_data)
writer_save(p) ==
    /\ writers[p].pc = "loaded"
    /\ WriterFinish(p, writers[p].scores_data)

InitConc ==
    /\ scores_file \in InitStores
    /\ op = OpIdle
    /\ before = scores_file
    /\ ret = RetNone
    /\ oracle_log = <<>>
    /\ writers = [p \in Writers |->
                    [pc |-> "start", input_str |-> WriterInput(p),
                     scores_data |-> <<>>, wrote |-> FALSE,
                     storage_key |-> <<>>, record |-> EmptyDict]]
    /\ io_log = <<>>
    /\ IdleTotal /\ IdlePct /\ IdleRank /\ IdleLoad /\ IdleDef /\ IdleBatch
    /\ IdleFill

WriterLoad ==
    /\ \E p \in Writers : writer_load(p)
    /\ UNCHANGED <<op, before, ret, oracle_log>>
    /\ UNCHANGED <<totVars, pctVars, rankVars, loadVars, defVars, batchVars, fillVars>>

WriterSave ==
    /\ \E p \in Writers : writer_save(p)
    /\ UNCHANGED <<op, before, ret, oracle_log>>
    /\ UNCHANGED <<totVars, pctVars, rankVars, loadVars, defVars, batchVars, fillVars>>

NextConc == WriterLoad \/ WriterSave

SpecConc == InitConc /\ [][NextConc]_vars

PositionOf(event) == CHOOSE i \in 1..Len(io_log) : io_log[i] = event

Happened(event) == \E i \in 1..Len(io_log) : io_log[i] = event

\* q read the file before p saved and saved after p did
Overwrites(q, p) ==
    /\ Happened(<<q, "save">>) /\ Happened(<<p, "save">>)
    /\ PositionOf(<<q, "load">>) < PositionOf(<<p, "save">>)
    /\ PositionOf(<<p, "save">>) < PositionOf(<<q, "save">>)

LostRecord(p) ==
    /\ writers[p].wrote
    /\ \/ ~HasKey(scores_file, writers[p].storage_key)
       \/ GetData(scores_file, writers[p].storage_key) # writers[p].record

BothDone == \A p \in Writers : writers[p].pc = "done"

\* C22: when two processes have each loaded, acquired and saved for
\* different tickers, the record one of them saved is missing from
\* scores.json exactly when the other one loaded before that save and saved
\* after it: such interleavings exist.
C22_LostUpdate ==
    BothDone =>
        \A p \in Writers : \A q \in Writers \ {p} :
            writers[p].wrote => (LostRecord(p) <=> Overwrites(q, p))

C22_Witness ==
    /\ BothDone
    /\ \A p \in Writers : writers[p].wrote
    /\ \E p \in Writers : ~HasKey(scores_file, writers[p].storage_key)

(***************************************************************************)
(* score_multiple_tickers: one score_single_ticker(ticker, silent=True,    *)
(* batch_mode=True) per word of the input, then the grouped display.       *)
(***************************************************************************)
MaxBatchTickers == 3

\* str.split(): the maximal runs of non-blank characters, in order
RECURSIVE SplitFrom(_, _, _, _)
SplitFrom(s, i, word, words) ==
    IF i > Len(s)
    THEN IF word = <<>> THEN words ELSE Append(words, word)
    ELSE IF s[i] \in Whitespace
    THEN SplitFrom(s, i + 1, <<>>,
                   IF word = <<>> THEN words ELSE Append(words, word))
    ELSE SplitFrom(s, i + 1, Append(word, s[i]), words)

Split(s) == SplitFrom(s, 1, <<>>, <<>>)

BatchCall(ticker, result) == [ticker |-> ticker, kind |-> result.kind]

\* a loop that gives up at the first ticker whose scoring failed
score_multiple_tickers_step_StopsOnError ==
    \E tickers \in {Split(Strip(batch_input))} :
        /\ ~batch_done
        /\ batch_pos < Len(tickers)
        /\ \E ticker \in {tickers[batch_pos + 1]} :
              /\ score_single_ticker(ticker, TRUE, TRUE)
              /\ batch_log' = Append(batch_log, BatchCall(ticker, ret'))
        /\ batch_pos' = IF ret'.kind = "error" THEN Len(tickers)
                        ELSE batch_pos + 1
        /\ UNCHANGED <<batch_input, batch_done>>
        /\ UNCHANGED <<totVars, pctVars, rankVars, loadVars, defVars, concVars, fillVars>>

\* one turn of "for i, ticker in enumerate(tickers, 1)"
score_multiple_tickers_step ==
    \E tickers \in {Split(Strip(batch_input))} :
        /\ ~batch_done
        /\ batch_pos < Len(tickers)
        /\ \E ticker \in {tickers[batch_pos + 1]} :
              /\ score_single_ticker(ticker, TRUE, TRUE)
              /\ batch_log' = Append(batch_log, BatchCall(ticker, ret'))
        /\ batch_pos' = batch_pos + 1
        /\ UNCHANGED <<batch_input, batch_done>>
        /\ UNCHANGED <<totVars, pctVars, rankVars, loadVars, defVars, concVars, fillVars>>

\* the loop is over (or there was no ticker): the display, then the return
score_multiple_tickers_return ==
    /\ ~batch_done
    /\ batch_pos = Len(Split(Strip(batch_input)))
    /\ batch_done' = TRUE
    /\ UNCHANGED <<batch_input, batch_pos, batch_log>>
    /\ UNCHANGED <<acqVars, totVars, pctVars, rankVars, loadVars, defVars, concVars, fillVars>>

BatchWords == { T_AAPL, Lower(T_MSFT), T_ZZZ }

RECURSIVE Spaced(_)
Spaced(words) ==
    IF words = <<>> THEN <<" ">>
    ELSE <<" ">> \o Head(words) \o <<" ">> \o Spaced(Tail(words))

BatchInputs ==
    { Spaced(words) :
        words \in UNION { [1..n -> BatchWords] : n \in 0..MaxBatchTickers } }

InitBatch ==
    /\ scores_file \in InitStores
    /\ op = OpIdle
    /\ before = scores_file
    /\ ret = RetNone
    /\ oracle_log = <<>>
    /\ batch_input \in BatchInputs
    /\ batch_pos = 0
    /\ batch_log = <<>>
    /\ batch_done = FALSE
    /\ IdleTotal /\ IdlePct /\ IdleRank /\ IdleLoad /\ IdleDef /\ IdleConc
    /\ IdleFill

NextBatch == score_multiple_tickers_step \/ score_multiple_tickers_return

SpecBatch == InitBatch /\ [][NextBatch]_vars

\* the words of the input, read off the text: the i-th word starts at the
\* i-th non-blank character that follows a blank or starts the text
WordStarts(s) ==
    { i \in 1..Len(s) : s[i] # " " /\ (i = 1 \/ s[i - 1] = " ") }

WordAt(s, i) ==
    LET stop == CHOOSE j \in i..Len(s) :
                    /\ \A k \in i..j : s[k] # " "
                    /\ (j = Len(s) \/ s[j + 1] = " ")
    IN  SubSeq(s, i, stop)

NthWord(s, n) ==
    WordAt(s, CHOOSE i \in WordStarts(s) :
                 Cardinality({ j \in WordStarts(s) : j <= i }) = n)

Kept(old, new) ==
    \A i \in 1..Len(old) :
        /\ HasKey(new, old[i].key)
        /\ \A k \in MetricKeys :
              Truthy(old[i].data[k]) =>
                  GetData(new, old[i].key)[k] = old[i].data[k]

\* C23: score_multiple_tickers calls score_single_ticker once for every word
\* of its input, in the order of the input, whatever the earlier calls
\* returned (None for an invalid ticker, an error for an oracle failure);
\* when it ends it has attempted all of them; and no step removes a record
\* of the store or changes a value an earlier step persisted.
C23_BatchAttemptsAll ==
    /\ [](/\ Len(batch_log) <= Cardinality(WordStarts(batch_input))
          /\ \A n \in 1..Len(batch_log) :
                batch_log[n].ticker = NthWord(batch_input, n)
          /\ batch_done => Len(batch_log) = Cardinality(WordStarts(batch_input)))
    /\ [][Kept(scores_file, scores_file')]_vars

\* an invalid ticker, then a ticker whose scoring failed, then one scored
C23_Witness ==
    /\ batch_done
    /\ Len(batch_log) = 3
    /\ batch_log[1].kind = "None"
    /\ batch_log[2].kind = "error"
    /\ batch_log[3].kind = "success"
    /\ HasKey(scores_file, T_MSFT)

(***************************************************************************)
(* fill_missing_barriers_scores: every stored record that has a moat score *)
(* and lacks a metric is completed and saved, one company after another.   *)
(***************************************************************************)
MaxFillCompanies == 2

\* company_scores[score_key] = data.get(score_key), registry keys only
CompanyScores(data) ==
    [f \in Fields |-> IF f \in MetricKeys THEN DictGet(data, f) ELSE Absent]

\* the first loop: the companies with a moat score and a metric missing
RECURSIVE CompaniesToScore(_, _)
CompaniesToScore(companies, i) ==
    IF i > Len(companies) THEN <<>>
    ELSE LET data == companies[i].data
             moat_score == DictGetDefault(data, "moat_score", DictGet(data, "score"))
             company_scores == CompanyScores(data)
         IN  IF Truthy(moat_score) /\ MissingKeys(company_scores) # <<>>
             THEN <<[company_name |-> companies[i].key,
                     company_scores |-> company_scores]>>
                  \o CompaniesToScore(companies, i + 1)
             ELSE CompaniesToScore(companies, i + 1)

\* the second loop from the i-th company on; answers[n] is what the oracle
\* does on the n-th request of the call.  An exception leaves the function
\* through its handler.
RECURSIVE FillFrom(_, _, _, _, _)
FillFrom(companies, companies_to_score, i, answers, log) ==
    IF i > Len(companies_to_score)
    THEN [store |-> companies, log |-> log]
    ELSE LET company_name == companies_to_score[i].company_name
             company_scores == companies_to_score[i].company_scores
             todo == MissingKeys(company_scores)
             asked == Len(log)
             failing == { n \in 1..Len(todo) : answers[asked + n] = Raises }
         IN  IF failing # {}
             THEN LET first == CHOOSE n \in failing : \A m \in failing : n <= m
                  IN  [store |-> companies,
                       log |-> log \o [n \in 1..first |-> <<company_name, todo[n]>>]]
             ELSE LET filled ==
                          [f \in Fields |->
                              IF \E n \in 1..Len(todo) : todo[n] = f
                              THEN Strip(answers[asked +
                                      CHOOSE n \in 1..Len(todo) : todo[n] = f])
                              ELSE company_scores[f]]
                  IN  FillFrom(PutData(companies, company_name, filled),
                               companies_to_score, i + 1, answers,
                               log \o [n \in 1..Len(todo) |-> <<company_name, todo[n]>>])

OpFill == [name |-> "fill_missing_barriers_scores", input_str |-> <<>>,
           silent |-> FALSE, batch_mode |-> FALSE]

MaxFillRequests == MaxFillCompanies * NumMetrics

fill_missing_barriers_scores ==
    \E answers \in [1..MaxFillRequests -> OracleTexts \cup {Raises}] :
    \E out \in {FillFrom(scores_file, CompaniesToScore(scores_file, 1), 1,
                         answers, <<>>)} :
        \* answers the call does not get to see are not told apart
        /\ \A n \in 1..MaxFillRequests : n > Len(out.log) => answers[n] = Raises
        /\ op' = OpFill
        /\ before' = scores_file
        /\ scores_file' = out.store
        /\ ret' = RetNone
        /\ oracle_log' = out.log
        /\ fill_answers' = [n \in 1..Len(out.log) |-> answers[n]]

FillKeys == << Lower(T_AAPL), Lower(T_MSFT) >>

FillRecords == { r \in InitRecords : r["date"] = Absent }

InitFill ==
    /\ \E n \in 0..MaxFillCompanies :
       \E rs \in [1..n -> FillRecords] :
            scores_file = [i \in 1..n |-> [key |-> FillKeys[i], data |-> rs[i]]]
    /\ op = OpIdle
    /\ before = scores_file
    /\ ret = RetNone
    /\ oracle_log = <<>>
    /\ fill_answers = <<>>
    /\ IdleTotal /\ IdlePct /\ IdleRank /\ IdleLoad
    /\ IdleDef /\ IdleConc /\ IdleBatch

FillMissingBarriersScores ==
    /\ fill_missing_barriers_scores
    /\ UNCHANGED <<totVars, pctVars, rankVars, loadVars, defVars, concVars, batchVars>>

NextFill == FillMissingBarriersScores

SpecFill == InitFill /\ [][NextFill]_vars

\* the keys of the records the call had to complete, in stored order: a moat
\* score (under its key or the legacy key) and some metric missing
IncompleteBefore ==
    SelectSeq([i \in 1..Len(before) |-> before[i].key],
              LAMBDA k : LET r == GetData(before, k)
                         IN  /\ ~IsMissing(r["moat_score"]) \/ ~IsMissing(r["score"])
                             /\ MissingIn(r) # {})

OracleFailed == \E n \in 1..Len(fill_answers) : fill_answers[n] = Raises

AskedFor(company) ==
    { oracle_log[n][2] : n \in { m \in 1..Len(oracle_log) : oracle_log[m][1] = company } }

\* C24: when the oracle fails while the k-th incomplete company is
\* processed, the records of the incomplete companies before it are in the
\* file with no metric missing, the records of the k-th and the later ones
\* are in the file as they were before the call, and for every company only
\* metrics its record lacked were requested.
C24_FillPersistsPerCompany ==
    (op.name = "fill_missing_barriers_scores" /\ OracleFailed) =>
        LET k == CHOOSE j \in 1..Len(IncompleteBefore) :
                    IncompleteBefore[j] = oracle_log[Len(oracle_log)][1]
        IN  /\ \A j \in 1..(k - 1) :
                  MissingIn(GetData(scores_file, IncompleteBefore[j])) = {}
            /\ \A j \in k..Len(IncompleteBefore) :
                  GetData(scores_file, IncompleteBefore[j])
                      = GetData(before, IncompleteBefore[j])
            /\ \A j \in 1..Len(IncompleteBefore) :
                  AskedFor(IncompleteBefore[j])
                      \subseteq MissingIn(GetData(before, IncompleteBefore[j]))

(***************************************************************************)
(* Claims about the population of totals and about absent metrics.         *)
(***************************************************************************)
CompleteRecords(companies) ==
    SelectSeq(companies, LAMBDA e : MissingIn(e.data) = {})

\* C25: the totals that get_all_total_scores returns for the percentile are
\* the totals of the complete records of the store, one per complete
\* record: a record that lacks a metric contributes no total.
C25_PopulationOnlyComplete ==
    (all_totals # NotCalled /\ all_totals.raised = "none") =>
        Len(all_totals.value) = Len(CompleteRecords(raw_file.companies))

PresentMetrics(record) == { k \in MetricKeys : record[k] # Absent }

RECURSIVE MaxOver(_)
MaxOver(keys) ==
    IF keys = {} THEN 0
    ELSE LET k == CHOOSE x \in keys : TRUE
         IN  10 * SCORE_WEIGHTS[k] + MaxOver(keys \ {k})

\* C30: a registry metric whose key is absent from the record adds nothing
\* to calculate_total_score, like a value that is not a number, whether the
\* metric is reverse or not: the total is the weighted sum over the metrics
\* that are present, it is 0 for the empty record, and it is at most the sum
\* of 10 * weight over the metrics present.
C30_AbsentContributesZero ==
    total_done =>
        /\ total = ClaimedSum(scores_dict, PresentMetrics(scores_dict))
        /\ PresentMetrics(scores_dict) = {} => total = 0
        /\ total <= MaxOver(PresentMetrics(scores_dict))

(***************************************************************************)
(* Claims about the keys of the store.                                     *)
(***************************************************************************)
KnownTickers == DOMAIN load_ticker_lookup

\* C26: through acquisitions and key migrations that start from a store
\* with at most one record per entity, the store never holds two keys of
\* one entity (its ticker, its lower-cased ticker, its lower-cased name).
C26_OneRecordPerEntity ==
    \A t \in KnownTickers :
        Cardinality(EntityKeys(t) \cap StoreKeys(scores_file)) <= 1

(***************************************************************************)
(* Claims about the flags and about failed acquisitions.                   *)
(***************************************************************************)
\* what a call can do to the store, return and request, over all oracles
PossibleOutcomes(companies, input_str, silent, batch_mode) ==
    LET look == Lookup(companies, input_str, batch_mode \/ ~silent)
    IN  { Acquire(companies, input_str, look, ans) : ans \in OracleBehaviours }

\* C27: silent and batch_mode change what score_single_ticker prints and
\* nothing else: whatever a call did to the store, returned and asked the
\* oracle, the call with any other combination of the two flags does the
\* same from the same store under the same oracle; with silent = True and
\* batch_mode = False too, every missing metric is asked for and no record
\* with a None or absent metric is written.
C27_FlagsOnlyAffectPrinting ==
    [][ op'.name = "score_single_ticker" =>
          /\ \A silent \in BOOLEAN, batch_mode \in BOOLEAN :
                [store |-> scores_file', ret |-> ret', log |-> oracle_log']
                    \in PossibleOutcomes(scores_file, op'.input_str,
                                         silent, batch_mode)
          /\ scores_file' # scores_file =>
                \A i \in 1..Len(scores_file') :
                    scores_file'[i].key = ret'.ticker =>
                        \A k \in MetricKeys :
                            scores_file'[i].data[k] \notin {Absent, NoneVal} ]_vars

\* C28: when a request of score_single_ticker to the oracle raises, the
\* call returns a result with success = False and the store is as it was
\* before the call; and a call that creates or replaces an entry of the
\* store has obtained every metric the record lacked, so the entry it
\* writes has a value for every metric.
C28_StoreUnchangedOnFailure ==
    op.name = "score_single_ticker" =>
        /\ ret.kind = "error" => scores_file = before
        /\ scores_file # before =>
              /\ ret.kind = "success"
              /\ \A k \in MetricKeys :
                    GetData(scores_file, CallTicker)[k] \notin {Absent, NoneVal}

(***************************************************************************)
(* Claim about the result of the ranking as a collection.                  *)
(***************************************************************************)
Occurrences(q, x) == Cardinality({ i \in 1..Len(q) : q[i] = x })

\* C29: whatever the oracle answers (consistently or not, or by failing),
\* the sequence merge_sort_companies returns has the length of its input
\* and holds every entity of the input exactly as often as the input does.
C29_ResultIsPermutation ==
    sort_done =>
        /\ Len(sorted_companies) = Len(ranked_input)
        /\ \A x \in Range(ranked_input) \cup Range(sorted_companies) :
              Occurrences(sorted_companies, x) = Occurrences(ranked_input, x)

\* a ranking of MaxCompanies entities in which the oracle failed last and
\* that came out in another order than the input
C29_Witness ==
    /\ sort_done
    /\ Len(ranked_input) = MaxCompanies
    /\ grok.mode = "any"
    /\ grok_answer = Raises
    /\ sorted_companies # ranked_input

====
